---- MODULE Spec2Model ----
(***************************************************************************)
(* Verification model of genie_spaces_api: the GenieSpaceExport document   *)
(* model (models.py), its factories, and its JSON (de)serialization.       *)
(*                                                                         *)
(* Python strings are sequences of one-character strings, so that          *)
(* str.split and str.join are computed, not assumed.  Python values and    *)
(* JSON values are tagged records; a pydantic model instance is a record   *)
(* of its class name and its field values.  A JSON text is the JSON value  *)
(* it encodes (json.dumps / json.loads of pydantic-core are the external   *)
(* codec), or a text that is not JSON at all.                              *)
(***************************************************************************)
EXTENDS Integers, Sequences, FiniteSets, TLC

(***************************************************************************)
(* Bounds of the model.                                                    *)
(***************************************************************************)
\* longest text handed to a factory in SpecFactory
MaxLen == 3
\* number of records a built document holds at most in Spec
MaxRecords == 2
\* number of ids generated before a factory call in SpecFactory, at most
MaxIds == 2

(***************************************************************************)
(* Python values.                                                          *)
(***************************************************************************)
PyNone == [t |-> "None"]
PyStr(s) == [t |-> "str", s |-> s]
PyInt(n) == [t |-> "int", n |-> n]
PyBool(b) == [t |-> "bool", b |-> b]
PyList(a) == [t |-> "list", a |-> a]
PyModel(cls, f) == [t |-> "model", cls |-> cls, f |-> f]

\* Python truthiness of the values the factories test with `or` / `if x`.
Truthy(v) ==
    CASE v.t = "None" -> FALSE
      [] v.t = "str" -> v.s # <<>>
      [] v.t = "bool" -> v.b
      [] v.t = "int" -> v.n # 0
      [] v.t = "list" -> v.a # <<>>
      [] OTHER -> TRUE

(***************************************************************************)
(* JSON values and JSON texts.                                             *)
(***************************************************************************)
JNull == [t |-> "null"]
JString(s) == [t |-> "string", s |-> s]
JNumber(n) == [t |-> "number", n |-> n]
JBool(b) == [t |-> "boolean", b |-> b]
JArray(a) == [t |-> "array", a |-> a]
JObject(o) == [t |-> "object", o |-> o]

JsonText(doc) == [json |-> TRUE, doc |-> doc]
NotJsonText == [json |-> FALSE]

(***************************************************************************)
(* str.split("\n")                                                        *)
(***************************************************************************)
NL == "\n"

\* faulty variant: splits at the first newline only
split_once(s) ==
    IF \A i \in DOMAIN s : s[i] # NL
    THEN <<s>>
    ELSE LET i == CHOOSE i \in DOMAIN s :
                     s[i] = NL /\ \A k \in 1..(i - 1) : s[k] # NL
         IN  <<SubSeq(s, 1, i - 1), SubSeq(s, i + 1, Len(s))>>

RECURSIVE split(_)
split(s) ==
    IF \A i \in DOMAIN s : s[i] # NL
    THEN <<s>>
    ELSE LET i == CHOOSE i \in DOMAIN s :
                     s[i] = NL /\ \A k \in 1..(i - 1) : s[k] # NL
         IN  <<SubSeq(s, 1, i - 1)>> \o split(SubSeq(s, i + 1, Len(s)))

\* a list[str] value from a sequence of Python strings
StrList(lines) == PyList([i \in DOMAIN lines |-> PyStr(lines[i])])

(***************************************************************************)
(* generate_id: uuid.uuid4().hex.  The uuid source is the external opaque  *)
(* unique-identifier generator; its n-th draw is the 128-bit value n,      *)
(* which .hex formats as 32 lower-case hex digits.                         *)
(***************************************************************************)
HexDigits == <<"0", "1", "2", "3", "4", "5", "6", "7",
               "8", "9", "a", "b", "c", "d", "e", "f">>

IdLen == 32

hex(n) ==
    [i \in 1..IdLen |->
        IF IdLen - i < 7
        THEN HexDigits[((n \div (16 ^ (IdLen - i))) % 16) + 1]
        ELSE "0"]

\* faulty variant: the id is drawn once and reused (a default evaluated once)
generate_id_once(n) == hex(0)

generate_id(n) == hex(n)

(***************************************************************************)
(* Field declarations of the pydantic classes.                             *)
(***************************************************************************)
TStr == [k |-> "str"]
TInt == [k |-> "int"]
TBool == [k |-> "bool"]
TLiteral(vals) == [k |-> "literal", vals |-> vals]
TList(of) == [k |-> "list", of |-> of]
TModel(cls) == [k |-> "model", cls |-> cls]
TOptional(of) == [k |-> "optional", of |-> of]

Required == [d |-> "required"]
Default(v) == [d |-> "value", v |-> v]
DefaultFactory(f) == [d |-> "factory", f |-> f]

Field(name, type, default) == [name |-> name, type |-> type, default |-> default]

SQL == <<"S", "Q", "L">>

SampleQuestion ==
    << Field("id", TStr, DefaultFactory("generate_id")),
       Field("question", TList(TStr), Required) >>

GenieSpaceConfig ==
    << Field("sample_questions", TList(TModel("SampleQuestion")), DefaultFactory("list")) >>

ColumnConfig ==
    << Field("column_name", TStr, Required),
       Field("description", TOptional(TList(TStr)), Default(PyNone)),
       Field("synonyms", TOptional(TList(TStr)), Default(PyNone)),
       Field("exclude", TOptional(TBool), Default(PyNone)),
       Field("get_example_values", TOptional(TBool), Default(PyNone)),
       Field("build_value_dictionary", TOptional(TBool), Default(PyNone)) >>

Table ==
    << Field("identifier", TStr, Required),
       Field("description", TOptional(TList(TStr)), Default(PyNone)),
       Field("column_configs", TOptional(TList(TModel("ColumnConfig"))), Default(PyNone)) >>

MetricView ==
    << Field("identifier", TStr, Required),
       Field("description", TOptional(TList(TStr)), Default(PyNone)) >>

DataSources ==
    << Field("tables", TOptional(TList(TModel("Table"))), Default(PyNone)),
       Field("metric_views", TOptional(TList(TModel("MetricView"))), Default(PyNone)) >>

\* faulty variant: content declared as a required list[str]
TextInstruction_content_required ==
    << Field("id", TStr, DefaultFactory("generate_id")),
       Field("content", TList(TStr), Required) >>

TextInstruction ==
    << Field("id", TStr, DefaultFactory("generate_id")),
       Field("content", TOptional(TList(TStr)), Default(PyNone)) >>

Parameter ==
    << Field("name", TStr, Required),
       Field("type_hint", TStr, Required),
       Field("description", TOptional(TList(TStr)), Default(PyNone)) >>

ExampleQuestionSql ==
    << Field("id", TStr, DefaultFactory("generate_id")),
       Field("question", TList(TStr), Required),
       Field("sql", TList(TStr), Required),
       Field("parameters", TOptional(TList(TModel("Parameter"))), Default(PyNone)),
       Field("usage_guidance", TOptional(TList(TStr)), Default(PyNone)) >>

SqlFunction ==
    << Field("id", TStr, DefaultFactory("generate_id")),
       Field("identifier", TStr, Required) >>

JoinSource ==
    << Field("identifier", TStr, Required),
       Field("alias", TStr, Required) >>

JoinSpec ==
    << Field("id", TStr, DefaultFactory("generate_id")),
       Field("left", TModel("JoinSource"), Required),
       Field("right", TModel("JoinSource"), Required),
       Field("sql", TList(TStr), Required),
       Field("comment", TOptional(TList(TStr)), Default(PyNone)) >>

Instructions ==
    << Field("text_instructions", TOptional(TList(TModel("TextInstruction"))), Default(PyNone)),
       Field("example_question_sqls", TOptional(TList(TModel("ExampleQuestionSql"))), Default(PyNone)),
       Field("sql_functions", TOptional(TList(TModel("SqlFunction"))), Default(PyNone)),
       Field("join_specs", TOptional(TList(TModel("JoinSpec"))), Default(PyNone)) >>

\* faulty variant: format declared as str
BenchmarkAnswer_format_str ==
    << Field("format", TStr, Default(PyStr(SQL))),
       Field("content", TList(TStr), Required) >>

BenchmarkAnswer ==
    << Field("format", TLiteral({SQL}), Default(PyStr(SQL))),
       Field("content", TList(TStr), Required) >>

BenchmarkQuestion ==
    << Field("id", TStr, DefaultFactory("generate_id")),
       Field("question", TList(TStr), Required),
       Field("answer", TList(TModel("BenchmarkAnswer")), Required) >>

Benchmarks ==
    << Field("questions", TList(TModel("BenchmarkQuestion")), DefaultFactory("list")) >>

GenieSpaceExport ==
    << Field("version", TInt, Default(PyInt(1))),
       Field("config", TOptional(TModel("GenieSpaceConfig")), Default(PyNone)),
       Field("data_sources", TOptional(TModel("DataSources")), Default(PyNone)),
       Field("instructions", TOptional(TModel("Instructions")), Default(PyNone)),
       Field("benchmarks", TOptional(TModel("Benchmarks")), Default(PyNone)) >>

\* the declared fields of a class (BaseModel.model_fields)
\* the envelope the API returns; serialized_space is the JSON text of a
\* GenieSpaceExport, carried as a string
SpaceResponse ==
    <<Field("space_id", TStr, Required),
      Field("title", TStr, Required),
      Field("description", TOptional(TStr), Default(PyNone)),
      Field("warehouse_id", TOptional(TStr), Default(PyNone)),
      Field("serialized_space", TOptional(TStr), Default(PyNone))>>

model_fields(cls) ==
    CASE cls = "SampleQuestion" -> SampleQuestion
      [] cls = "GenieSpaceConfig" -> GenieSpaceConfig
      [] cls = "ColumnConfig" -> ColumnConfig
      [] cls = "Table" -> Table
      [] cls = "MetricView" -> MetricView
      [] cls = "DataSources" -> DataSources
      [] cls = "TextInstruction" -> TextInstruction
      [] cls = "Parameter" -> Parameter
      [] cls = "ExampleQuestionSql" -> ExampleQuestionSql
      [] cls = "SqlFunction" -> SqlFunction
      [] cls = "JoinSource" -> JoinSource
      [] cls = "JoinSpec" -> JoinSpec
      [] cls = "Instructions" -> Instructions
      [] cls = "BenchmarkAnswer" -> BenchmarkAnswer
      [] cls = "BenchmarkQuestion" -> BenchmarkQuestion
      [] cls = "Benchmarks" -> Benchmarks
      [] cls = "GenieSpaceExport" -> GenieSpaceExport
      [] cls = "SpaceResponse" -> SpaceResponse

\* the value a field takes when it is not supplied; n is the number of ids
\* generated so far
get_default(field, n) ==
    CASE field.default.d = "value" -> field.default.v
      [] field.default.d = "factory" /\ field.default.f = "list" -> PyList(<<>>)
      [] field.default.d = "factory" /\ field.default.f = "generate_id" ->
            PyStr(generate_id(n))

UsesGenerateId(field) ==
    field.default.d = "factory" /\ field.default.f = "generate_id"

(***************************************************************************)
(* The class constructor: an instance from well-typed keyword             *)
(* arguments that include every required field.  Result: the instance and  *)
(* the number of ids generated afterwards.                                 *)
(***************************************************************************)
Construct(cls, kwargs, n) ==
    LET fs == model_fields(cls)
        names == {fs[i].name : i \in DOMAIN fs}
        decl(k) == fs[CHOOSE i \in DOMAIN fs : fs[i].name = k]
        drawn == \E i \in DOMAIN fs :
                    fs[i].name \notin DOMAIN kwargs /\ UsesGenerateId(fs[i])
    IN  [v |-> PyModel(cls, [k \in names |->
                                IF k \in DOMAIN kwargs THEN kwargs[k]
                                ELSE get_default(decl(k), n)]),
         n |-> IF drawn THEN n + 1 ELSE n]

(***************************************************************************)
(* model_dump(exclude_none=True): every field is dumped, then the keys     *)
(* whose value is None are dropped, at every level.                        *)
(***************************************************************************)
\* faulty variant: nothing is dropped, None is written as null
exclude_nothing(o) == o

\* faulty variant: a false flag is dropped like None
exclude_none_and_false(o) ==
    [k \in {x \in DOMAIN o : o[x] # JNull /\ o[x] # [t |-> "boolean", b |-> FALSE]} |-> o[k]]

\* faulty variant: an empty sequence is dropped like None
exclude_none_and_empty(o) ==
    [k \in {x \in DOMAIN o : o[x] # JNull /\ o[x] # [t |-> "array", a |-> <<>>]} |-> o[k]]

exclude_none(o) == [k \in {x \in DOMAIN o : o[x] # JNull} |-> o[k]]

RECURSIVE model_dump(_)
model_dump(v) ==
    CASE v.t = "None" -> JNull
      [] v.t = "str" -> JString(v.s)
      [] v.t = "int" -> JNumber(v.n)
      [] v.t = "bool" -> JBool(v.b)
      [] v.t = "list" -> JArray([i \in DOMAIN v.a |-> model_dump(v.a[i])])
      [] v.t = "model" ->
            JObject(exclude_none([k \in DOMAIN v.f |-> model_dump(v.f[k])]))

to_dict(self) == model_dump(self)

to_json(self) == JsonText(model_dump(self))

(***************************************************************************)
(* model_validate_json: validation of a JSON value against a declared      *)
(* type.  Result: ok, the Python value, and the number of ids generated    *)
(* afterwards (a missing id is filled by default_factory=generate_id).     *)
(* Keys that the class does not declare are ignored (extra="ignore", the   *)
(* pydantic default).  A failure is pydantic's ValidationError.            *)
(***************************************************************************)
Ok(v, n) == [ok |-> TRUE, v |-> v, n |-> n]
PydanticValidationError(n) == [ok |-> FALSE, n |-> n]

RECURSIVE Validate(_, _, _)
RECURSIVE ValidateItems(_, _, _)
RECURSIVE ValidateFields(_, _, _)

Validate(type, j, n) ==
    CASE type.k = "str" ->
            IF j.t = "string" THEN Ok(PyStr(j.s), n) ELSE PydanticValidationError(n)
      [] type.k = "int" ->
            IF j.t = "number" THEN Ok(PyInt(j.n), n) ELSE PydanticValidationError(n)
      [] type.k = "bool" ->
            IF j.t = "boolean" THEN Ok(PyBool(j.b), n) ELSE PydanticValidationError(n)
      [] type.k = "literal" ->
            IF j.t = "string" /\ j.s \in type.vals
            THEN Ok(PyStr(j.s), n) ELSE PydanticValidationError(n)
      [] type.k = "optional" ->
            IF j.t = "null" THEN Ok(PyNone, n) ELSE Validate(type.of, j, n)
      [] type.k = "list" ->
            IF j.t = "array"
            THEN LET r == ValidateItems(type.of, j.a, n)
                 IN  IF r.ok THEN Ok(PyList(r.v), r.n) ELSE r
            ELSE PydanticValidationError(n)
      [] type.k = "model" ->
            IF j.t = "object"
            THEN LET r == ValidateFields(model_fields(type.cls), j.o, n)
                 IN  IF r.ok THEN Ok(PyModel(type.cls, r.v), r.n) ELSE r
            ELSE PydanticValidationError(n)

ValidateItems(type, items, n) ==
    IF items = <<>> THEN Ok(<<>>, n)
    ELSE LET h == Validate(type, Head(items), n)
         IN  IF ~h.ok THEN h
             ELSE LET r == ValidateItems(type, Tail(items), h.n)
                  IN  IF r.ok THEN Ok(<<h.v>> \o r.v, r.n) ELSE r

ValidateFields(fields, o, n) ==
    IF fields = <<>> THEN Ok(<<>>, n)
    ELSE LET f == Head(fields)
             h == IF f.name \in DOMAIN o THEN Validate(f.type, o[f.name], n)
                  ELSE IF f.default.d = "required" THEN PydanticValidationError(n)
                  ELSE Ok(get_default(f, n), IF UsesGenerateId(f) THEN n + 1 ELSE n)
         IN  IF ~h.ok THEN h
             ELSE LET r == ValidateFields(Tail(fields), o, h.n)
                  IN  IF r.ok THEN Ok((f.name :> h.v) @@ r.v, r.n) ELSE r

from_json(json_str, n) ==
    IF json_str.json
    THEN Validate(TModel("GenieSpaceExport"), json_str.doc, n)
    ELSE PydanticValidationError(n)

(***************************************************************************)
(* The factories.  kw holds the keyword arguments the caller passes; an    *)
(* argument that is not passed takes the default of the signature.  n is   *)
(* the number of ids generated so far; the result is the instance and the  *)
(* number of ids generated afterwards.                                     *)
(***************************************************************************)
Arg(kw, name, default) == IF name \in DOMAIN kw THEN kw[name] ELSE default

\* `id or generate_id()`
id_or_generate_id(id, n) ==
    IF Truthy(id) THEN [v |-> id, n |-> n]
    ELSE [v |-> PyStr(generate_id(n)), n |-> n + 1]

\* faulty variant: `[text] if text is not None else None`
one_line_unless_None(text) ==
    IF text = PyNone THEN PyNone ELSE [t |-> "list", a |-> <<text>>]

\* `[text] if text else None`
one_line_or_None(text) ==
    IF Truthy(text) THEN StrList(<<text.s>>) ELSE PyNone

\* faulty variant: the flag is stored as passed
flag_as_passed(flag) == flag

\* `flag if flag else None`
flag_or_None(flag) == IF Truthy(flag) THEN flag ELSE PyNone

SampleQuestion_from_text(kw, n) ==
    LET question == kw.question
        id == id_or_generate_id(Arg(kw, "id", PyNone), n)
    IN  Construct("SampleQuestion",
                  [id |-> id.v,
                   question |-> IF \E i \in DOMAIN question.s : question.s[i] = NL
                                THEN StrList(split(question.s))
                                ELSE StrList(<<question.s>>)],
                  id.n)

ColumnConfig_create(kw, n) ==
    Construct("ColumnConfig",
              [column_name |-> kw.column_name,
               description |-> one_line_or_None(Arg(kw, "description", PyNone)),
               synonyms |-> Arg(kw, "synonyms", PyNone),
               exclude |-> flag_or_None(Arg(kw, "exclude", PyBool(FALSE))),
               get_example_values |->
                   flag_or_None(Arg(kw, "get_example_values", PyBool(FALSE))),
               build_value_dictionary |->
                   flag_or_None(Arg(kw, "build_value_dictionary", PyBool(FALSE)))],
              n)

Table_create(kw, n) ==
    Construct("Table",
              [identifier |-> kw.identifier,
               description |-> one_line_or_None(Arg(kw, "description", PyNone)),
               column_configs |-> Arg(kw, "column_configs", PyNone)],
              n)

MetricView_create(kw, n) ==
    Construct("MetricView",
              [identifier |-> kw.identifier,
               description |-> one_line_or_None(Arg(kw, "description", PyNone))],
              n)

TextInstruction_from_text(kw, n) ==
    LET content == kw.content
        id == id_or_generate_id(Arg(kw, "id", PyNone), n)
    IN  Construct("TextInstruction",
                  [id |-> id.v,
                   content |-> IF Truthy(content) THEN StrList(split(content.s))
                               ELSE PyNone],
                  id.n)

Parameter_create(kw, n) ==
    Construct("Parameter",
              [name |-> kw.name,
               type_hint |-> kw.type_hint,
               description |-> one_line_or_None(Arg(kw, "description", PyNone))],
              n)

ExampleQuestionSql_create(kw, n) ==
    LET id == id_or_generate_id(Arg(kw, "id", PyNone), n)
    IN  Construct("ExampleQuestionSql",
                  [id |-> id.v,
                   question |-> StrList(<<kw.question.s>>),
                   sql |-> StrList(split(kw.sql.s)),
                   parameters |-> Arg(kw, "parameters", PyNone),
                   usage_guidance |->
                       one_line_or_None(Arg(kw, "usage_guidance", PyNone))],
                  id.n)

JoinSpec_create(kw, n) ==
    LET id == id_or_generate_id(Arg(kw, "id", PyNone), n)
    IN  Construct("JoinSpec",
                  [id |-> id.v,
                   left |-> Construct("JoinSource",
                                      [identifier |-> kw.left_identifier,
                                       alias |-> kw.left_alias], id.n).v,
                   right |-> Construct("JoinSource",
                                       [identifier |-> kw.right_identifier,
                                        alias |-> kw.right_alias], id.n).v,
                   sql |-> StrList(<<kw.join_condition.s>>),
                   comment |-> one_line_or_None(Arg(kw, "comment", PyNone))],
                  id.n)

BenchmarkAnswer_from_sql(sql, n) ==
    Construct("BenchmarkAnswer",
              [format |-> PyStr(SQL), content |-> StrList(split(sql.s))], n)

BenchmarkQuestion_create(kw, n) ==
    LET id == id_or_generate_id(Arg(kw, "id", PyNone), n)
    IN  Construct("BenchmarkQuestion",
                  [id |-> id.v,
                   question |-> StrList(<<kw.question.s>>),
                   answer |-> PyList(<<BenchmarkAnswer_from_sql(kw.sql_answer, id.n).v>>)],
                  id.n)

(***************************************************************************)
(* State.                                                                  *)
(***************************************************************************)
VARIABLES
    generated,  \* the ids generate_id has returned so far, in order
    call,       \* the last factory or constructor call: name, arguments, result
    export,     \* the GenieSpaceExport the caller is building
    cols,       \* ColumnConfig instances created and not yet put in a Table
    params,     \* Parameter instances created and not yet put in an example
    received,   \* what was done to the JSON text that came from outside
    wire,       \* <<>> or <<the JSON text produced by to_json or received>>
    restored,   \* <<>> or <<the outcome of from_json(wire)>>
    out,        \* <<>> or <<to_json of the restored document>>
    env,        \* os.environ: the variables that are set, with their values
    client,     \* the GenieSpacesClient, once constructed
    requests,   \* the HTTP requests issued through the client, in order
    outcome,    \* the last client call: its arguments and what it returned or raised
    decoded,    \* the outcomes of the get_export calls on the returned envelope
    scope,      \* the with-block over the client: not entered, inside, left
    disk        \* the file system: the files with their texts, the directories

vars == <<generated, call, export, cols, params, received, wire, restored, out,
          env, client, requests, outcome, decoded, scope, disk>>

clientVars == <<env, client, requests, outcome, decoded, scope, disk>>

docVars == <<export, cols, params, received, wire, restored, out>>

\* the ids drawn when the count of generated ids goes from n to m
Draws(n, m) == [i \in 1..(m - n) |-> generate_id(n + i - 1)]

NoCall == [fn |-> "none"]

EmptyExport == Construct("GenieSpaceExport", <<>>, 0).v

InitDoc ==
    /\ export = EmptyExport
    /\ cols = <<>>
    /\ params = <<>>
    /\ received = [kind |-> "nothing"]
    /\ wire = <<>>
    /\ restored = <<>>
    /\ out = <<>>

NoClient == [constructed |-> FALSE]

NoOutcome == [op |-> "none"]

NoScope == [block |-> "none", close_called |-> FALSE, propagated |-> <<>>]

\* no file and no directory besides the working directory
NoFiles == [files |-> <<>>, dirs |-> {}]

\* no client is in use
InitNoClient ==
    /\ env = <<>>
    /\ client = NoClient
    /\ requests = <<>>
    /\ outcome = NoOutcome
    /\ decoded = <<>>
    /\ scope = NoScope
    /\ disk = NoFiles

Init ==
    /\ generated = <<>>
    /\ call = NoCall
    /\ InitDoc
    /\ InitNoClient

(***************************************************************************)
(* Inputs of the factory calls.                                            *)
(***************************************************************************)
Alphabet == {"a", NL}

Texts == UNION {[1..k -> Alphabet] : k \in 0..MaxLen}

StrArgs == {PyStr(s) : s \in Texts}

AName == PyStr(<<"c">>)

IdArgs == {PyNone, PyStr(<<>>), PyStr(<<"i", "d">>)}

FlagNames == {"exclude", "get_example_values", "build_value_dictionary"}

\* an optional keyword argument: not passed, or passed with one of the values
Opt(name, values) == {<<>>} \cup {name :> v : v \in values}

AColumn == ColumnConfig_create([column_name |-> AName], 0).v

AParameter == Parameter_create([name |-> AName, type_hint |-> AName], 0).v

SampleQuestionKw ==
    {[question |-> q] @@ i : q \in StrArgs, i \in Opt("id", IdArgs)}

ColumnConfigKw ==
    {[column_name |-> AName] @@ d @@ s @@ e @@ g @@ b :
        d \in Opt("description", StrArgs),
        s \in Opt("synonyms", {PyList(<<>>), StrList(<< <<"a">> >>)}),
        e \in Opt("exclude", {PyBool(FALSE), PyBool(TRUE)}),
        g \in Opt("get_example_values", {PyBool(FALSE), PyBool(TRUE)}),
        b \in Opt("build_value_dictionary", {PyBool(FALSE), PyBool(TRUE)})}

TableKw ==
    {[identifier |-> AName] @@ d @@ c :
        d \in Opt("description", StrArgs),
        c \in Opt("column_configs", {PyList(<<>>), PyList(<<AColumn>>)})}

MetricViewKw ==
    {[identifier |-> AName] @@ d : d \in Opt("description", StrArgs)}

TextInstructionKw ==
    {[content |-> c] @@ i : c \in StrArgs, i \in Opt("id", IdArgs)}

ParameterKw ==
    {[name |-> AName, type_hint |-> AName] @@ d : d \in Opt("description", StrArgs)}

ExampleQuestionSqlKw ==
    {[question |-> q, sql |-> s] @@ p @@ u @@ i :
        q \in {PyStr(<<"a">>)}, s \in StrArgs,
        p \in Opt("parameters", {PyList(<<>>), PyList(<<AParameter>>)}),
        u \in Opt("usage_guidance", StrArgs),
        i \in Opt("id", IdArgs)}

JoinSpecKw ==
    {[left_identifier |-> AName, left_alias |-> PyStr(<<"l">>),
      right_identifier |-> AName, right_alias |-> PyStr(<<"r">>),
      join_condition |-> j] @@ c @@ i :
        j \in StrArgs, c \in Opt("comment", StrArgs), i \in Opt("id", IdArgs)}

BenchmarkQuestionKw ==
    {[question |-> q, sql_answer |-> s] @@ i :
        q \in {PyStr(<<"a">>)}, s \in StrArgs, i \in Opt("id", IdArgs)}

\* direct construction of a record that carries an id
SampleQuestionInitKw ==
    {[question |-> StrList(<< <<"a">> >>)] @@ i :
        i \in Opt("id", {PyStr(<<>>), PyStr(<<"i", "d">>)})}

(***************************************************************************)
(* SpecFactory: one factory or constructor call, on every input of the     *)
(* bounded sets, after any number of earlier generate_id calls.            *)
(***************************************************************************)
Called(fn, kw, r) ==
    /\ call' = [fn |-> fn, kw |-> kw, before |-> generated, result |-> r.v]
    /\ generated' = generated \o Draws(Len(generated), r.n)
    /\ UNCHANGED docVars

CallSampleQuestionFromText ==
    /\ call = NoCall
    /\ \E kw \in SampleQuestionKw :
           Called("SampleQuestion.from_text", kw,
                  SampleQuestion_from_text(kw, Len(generated)))
    /\ UNCHANGED clientVars

CallSampleQuestion ==
    /\ call = NoCall
    /\ \E kw \in SampleQuestionInitKw :
           Called("SampleQuestion", kw, Construct("SampleQuestion", kw, Len(generated)))
    /\ UNCHANGED clientVars

CallColumnConfigCreate ==
    /\ call = NoCall
    /\ \E kw \in ColumnConfigKw :
           Called("ColumnConfig.create", kw, ColumnConfig_create(kw, Len(generated)))
    /\ UNCHANGED clientVars

CallTableCreate ==
    /\ call = NoCall
    /\ \E kw \in TableKw :
           Called("Table.create", kw, Table_create(kw, Len(generated)))
    /\ UNCHANGED clientVars

CallMetricViewCreate ==
    /\ call = NoCall
    /\ \E kw \in MetricViewKw :
           Called("MetricView.create", kw, MetricView_create(kw, Len(generated)))
    /\ UNCHANGED clientVars

CallTextInstructionFromText ==
    /\ call = NoCall
    /\ \E kw \in TextInstructionKw :
           Called("TextInstruction.from_text", kw,
                  TextInstruction_from_text(kw, Len(generated)))
    /\ UNCHANGED clientVars

CallParameterCreate ==
    /\ call = NoCall
    /\ \E kw \in ParameterKw :
           Called("Parameter.create", kw, Parameter_create(kw, Len(generated)))
    /\ UNCHANGED clientVars

CallExampleQuestionSqlCreate ==
    /\ call = NoCall
    /\ \E kw \in ExampleQuestionSqlKw :
           Called("ExampleQuestionSql.create", kw,
                  ExampleQuestionSql_create(kw, Len(generated)))
    /\ UNCHANGED clientVars

CallJoinSpecCreate ==
    /\ call = NoCall
    /\ \E kw \in JoinSpecKw :
           Called("JoinSpec.create", kw, JoinSpec_create(kw, Len(generated)))
    /\ UNCHANGED clientVars

CallBenchmarkQuestionCreate ==
    /\ call = NoCall
    /\ \E kw \in BenchmarkQuestionKw :
           Called("BenchmarkQuestion.create", kw,
                  BenchmarkQuestion_create(kw, Len(generated)))
    /\ UNCHANGED clientVars

NextFactory ==
    \/ CallSampleQuestionFromText
    \/ CallSampleQuestion
    \/ CallColumnConfigCreate
    \/ CallTableCreate
    \/ CallMetricViewCreate
    \/ CallTextInstructionFromText
    \/ CallParameterCreate
    \/ CallExampleQuestionSqlCreate
    \/ CallJoinSpecCreate
    \/ CallBenchmarkQuestionCreate

\* any number of ids may have been generated before the call
InitFactory ==
    /\ generated \in {Draws(0, k) : k \in 0..MaxIds}
    /\ call = NoCall
    /\ InitDoc
    /\ InitNoClient

SpecFactory == InitFactory /\ [][NextFactory]_vars

(***************************************************************************)
(* Places in a document: a path is a sequence of object keys and array     *)
(* indexes, read on a JSON value and on the Python value parsed from it.   *)
(***************************************************************************)
Key(k) == [key |-> k]
Index(i) == [idx |-> i]
IsKey(step) == DOMAIN step = {"key"}

Missing == [t |-> "missing"]

RECURSIVE JGet(_, _)
JGet(j, path) ==
    IF path = <<>> THEN j
    ELSE LET h == Head(path)
         IN  IF IsKey(h)
             THEN IF j.t = "object" /\ h.key \in DOMAIN j.o
                  THEN JGet(j.o[h.key], Tail(path)) ELSE Missing
             ELSE IF j.t = "array" /\ h.idx \in DOMAIN j.a
                  THEN JGet(j.a[h.idx], Tail(path)) ELSE Missing

RECURSIVE PyGet(_, _)
PyGet(v, path) ==
    IF path = <<>> THEN v
    ELSE LET h == Head(path)
         IN  IF IsKey(h)
             THEN IF v.t = "model" /\ h.key \in DOMAIN v.f
                  THEN PyGet(v.f[h.key], Tail(path)) ELSE Missing
             ELSE IF v.t = "list" /\ h.idx \in DOMAIN v.a
                  THEN PyGet(v.a[h.idx], Tail(path)) ELSE Missing

\* the document j with the value at path replaced by (or, for a new key, set to) x
RECURSIVE JSet(_, _, _)
JSet(j, path, x) ==
    IF path = <<>> THEN x
    ELSE LET h == Head(path)
         IN  IF IsKey(h)
             THEN JObject((h.key :> JSet(IF h.key \in DOMAIN j.o THEN j.o[h.key]
                                         ELSE Missing, Tail(path), x)) @@ j.o)
             ELSE JArray([j.a EXCEPT ![h.idx] = JSet(@, Tail(path), x)])

\* the document j without the key that path ends in
RECURSIVE JDel(_, _)
JDel(j, path) ==
    LET h == Head(path)
    IN  IF Len(path) = 1
        THEN JObject([k \in DOMAIN j.o \ {h.key} |-> j.o[k]])
        ELSE IF IsKey(h)
             THEN JObject([j.o EXCEPT ![h.key] = JDel(@, Tail(path))])
             ELSE JArray([j.a EXCEPT ![h.idx] = JDel(@, Tail(path))])

StripOptional(type) == IF type.k = "optional" THEN type.of ELSE type

\* every declared field that the JSON document j holds, with its path
RECURSIVE FieldPaths(_, _, _)
FieldPaths(type, j, prefix) ==
    CASE type.k = "optional" -> FieldPaths(type.of, j, prefix)
      [] type.k = "list" /\ j.t = "array" ->
            UNION {FieldPaths(type.of, j.a[i], prefix \o <<Index(i)>>) : i \in DOMAIN j.a}
      [] type.k = "model" /\ j.t = "object" ->
            LET fs == model_fields(type.cls)
                held == {i \in DOMAIN fs : fs[i].name \in DOMAIN j.o}
            IN  UNION {{[path |-> prefix \o <<Key(fs[i].name)>>, field |-> fs[i]]}
                       \cup FieldPaths(fs[i].type, j.o[fs[i].name],
                                       prefix \o <<Key(fs[i].name)>>) : i \in held}
      [] OTHER -> {}

\* the path of every model instance in the JSON document j
ModelPaths(j) ==
    LET held == FieldPaths(TModel("GenieSpaceExport"), j, <<>>)
        models == {p \in held : /\ StripOptional(p.field.type).k = "model"
                                /\ JGet(j, p.path).t = "object"}
        lists == {p \in held : /\ StripOptional(p.field.type).k = "list"
                               /\ StripOptional(p.field.type).of.k = "model"
                               /\ JGet(j, p.path).t = "array"}
    IN  {<<>>} \cup {p.path : p \in models}
               \cup UNION {{p.path \o <<Index(i)>> : i \in DOMAIN JGet(j, p.path).a} :
                              p \in lists}

(***************************************************************************)
(* Every model instance inside a Python value, outermost first, in field   *)
(* and list order.                                                         *)
(***************************************************************************)
RECURSIVE Instances(_)
RECURSIVE InstancesOfItems(_)
RECURSIVE InstancesOfFields(_, _)

Instances(v) ==
    CASE v.t = "list" -> InstancesOfItems(v.a)
      [] v.t = "model" -> <<v>> \o InstancesOfFields(model_fields(v.cls), v)
      [] OTHER -> <<>>

InstancesOfItems(items) ==
    IF items = <<>> THEN <<>>
    ELSE Instances(Head(items)) \o InstancesOfItems(Tail(items))

InstancesOfFields(fields, v) ==
    IF fields = <<>> THEN <<>>
    ELSE Instances(v.f[Head(fields).name]) \o InstancesOfFields(Tail(fields), v)

\* the classes whose instances are the entries of a document
RecordClasses ==
    {"SampleQuestion", "Table", "ColumnConfig", "MetricView", "TextInstruction",
     "ExampleQuestionSql", "Parameter", "SqlFunction", "JoinSpec", "BenchmarkQuestion"}

NumRecords(v) ==
    Cardinality({i \in DOMAIN Instances(v) : Instances(v)[i].cls \in RecordClasses})

(***************************************************************************)
(* Spec: the life of a document.  The caller builds an export from records *)
(* made by the factories and constructors, serializes it with to_json and  *)
(* parses the text back with from_json; or a JSON text arrives from        *)
(* outside, is parsed with from_json and, when valid, serialized again.    *)
(***************************************************************************)
DocTexts == {PyStr(<<"a">>), PyStr(<<"a", NL, "b">>)}

DocId == PyStr(<<"i", "d">>)

DocColumnKw ==
    {[column_name |-> AName] @@ x :
        x \in {<<>>,
               [description |-> PyStr(<<"a">>), synonyms |-> StrList(<< <<"a">> >>),
                get_example_values |-> PyBool(TRUE)],
               [synonyms |-> PyList(<<>>)],
               [exclude |-> PyBool(FALSE), build_value_dictionary |-> PyBool(TRUE)]}}

DocColumnInitKw ==
    {[column_name |-> AName, exclude |-> PyBool(FALSE)],
     [column_name |-> AName, description |-> PyList(<<>>),
      get_example_values |-> PyBool(TRUE)]}

Building == wire = <<>> /\ received.kind = "nothing"

HasRoom == NumRecords(export) + Len(cols) + Len(params) < MaxRecords

\* the export with item appended to the list field of one of its sections,
\* the section being constructed when the export has none yet
Appended(section, cls, field, item) ==
    LET sec == IF export.f[section] = PyNone
               THEN Construct(cls, <<>>, 0).v ELSE export.f[section]
        old == IF sec.f[field] = PyNone THEN <<>> ELSE sec.f[field].a
    IN  [export EXCEPT !.f[section] =
            [sec EXCEPT !.f[field] = PyList(Append(old, item))]]

Put(section, cls, field, r) ==
    /\ export' = Appended(section, cls, field, r.v)
    /\ generated' = generated \o Draws(Len(generated), r.n)
    /\ UNCHANGED <<call, received, wire, restored, out>>

AddSampleQuestion ==
    /\ Building /\ HasRoom
    /\ \E q \in DocTexts, i \in Opt("id", {DocId}) :
           Put("config", "GenieSpaceConfig", "sample_questions",
               SampleQuestion_from_text([question |-> q] @@ i, Len(generated)))
    /\ UNCHANGED <<cols, params>>
    /\ UNCHANGED clientVars

CreateColumnConfig ==
    /\ Building /\ HasRoom
    /\ \E kw \in DocColumnKw :
           cols' = Append(cols, ColumnConfig_create(kw, Len(generated)).v)
    /\ UNCHANGED <<generated, call, export, params, received, wire, restored, out>>
    /\ UNCHANGED clientVars

ConstructColumnConfig ==
    /\ Building /\ HasRoom
    /\ \E kw \in DocColumnInitKw :
           cols' = Append(cols, Construct("ColumnConfig", kw, Len(generated)).v)
    /\ UNCHANGED <<generated, call, export, params, received, wire, restored, out>>
    /\ UNCHANGED clientVars

AddTable ==
    /\ Building /\ HasRoom
    /\ \E d \in Opt("description", {PyStr(<<"a">>)}), passCols \in BOOLEAN :
           /\ Put("data_sources", "DataSources", "tables",
                  Table_create([identifier |-> AName] @@ d @@
                                   (IF passCols THEN [column_configs |-> PyList(cols)]
                                    ELSE <<>>),
                               Len(generated)))
           /\ cols' = IF passCols THEN <<>> ELSE cols
    /\ UNCHANGED params
    /\ UNCHANGED clientVars

AddMetricView ==
    /\ Building /\ HasRoom
    /\ \E d \in Opt("description", {PyStr(<<"a">>)}) :
           Put("data_sources", "DataSources", "metric_views",
               MetricView_create([identifier |-> AName] @@ d, Len(generated)))
    /\ UNCHANGED <<cols, params>>
    /\ UNCHANGED clientVars

AddTextInstruction ==
    /\ Building /\ HasRoom
    /\ \E c \in DocTexts \cup {PyStr(<<>>)} :
           Put("instructions", "Instructions", "text_instructions",
               TextInstruction_from_text([content |-> c], Len(generated)))
    /\ UNCHANGED <<cols, params>>
    /\ UNCHANGED clientVars

CreateParameter ==
    /\ Building /\ HasRoom
    /\ \E d \in Opt("description", {PyStr(<<"a">>)}) :
           params' = Append(params,
                            Parameter_create([name |-> AName, type_hint |-> AName] @@ d,
                                             Len(generated)).v)
    /\ UNCHANGED <<generated, call, export, cols, received, wire, restored, out>>
    /\ UNCHANGED clientVars

AddExampleQuestionSql ==
    /\ Building /\ HasRoom
    /\ \E u \in Opt("usage_guidance", {PyStr(<<"a">>)}), passParams \in BOOLEAN :
           /\ Put("instructions", "Instructions", "example_question_sqls",
                  ExampleQuestionSql_create(
                      [question |-> PyStr(<<"a">>), sql |-> PyStr(<<"a", NL, "b">>)] @@ u @@
                          (IF passParams THEN [parameters |-> PyList(params)] ELSE <<>>),
                      Len(generated)))
           /\ params' = IF passParams THEN <<>> ELSE params
    /\ UNCHANGED cols
    /\ UNCHANGED clientVars

AddSqlFunction ==
    /\ Building /\ HasRoom
    /\ \E i \in Opt("id", {DocId}) :
           Put("instructions", "Instructions", "sql_functions",
               Construct("SqlFunction", [identifier |-> AName] @@ i, Len(generated)))
    /\ UNCHANGED <<cols, params>>
    /\ UNCHANGED clientVars

AddJoinSpec ==
    /\ Building /\ HasRoom
    /\ \E c \in Opt("comment", {PyStr(<<"a">>)}) :
           Put("instructions", "Instructions", "join_specs",
               JoinSpec_create([left_identifier |-> AName, left_alias |-> PyStr(<<"l">>),
                                right_identifier |-> AName, right_alias |-> PyStr(<<"r">>),
                                join_condition |-> PyStr(<<"a">>)] @@ c,
                               Len(generated)))
    /\ UNCHANGED <<cols, params>>
    /\ UNCHANGED clientVars

AddBenchmarkQuestion ==
    /\ Building /\ HasRoom
    /\ \E q \in DocTexts :
           Put("benchmarks", "Benchmarks", "questions",
               BenchmarkQuestion_create([question |-> PyStr(<<"a">>), sql_answer |-> q],
                                        Len(generated)))
    /\ UNCHANGED <<cols, params>>
    /\ UNCHANGED clientVars

ToJson ==
    /\ Building
    /\ cols = <<>>
    /\ params = <<>>
    /\ wire' = <<to_json(export)>>
    /\ UNCHANGED <<generated, call, export, cols, params, received, restored, out>>
    /\ UNCHANGED clientVars

FromJson ==
    /\ wire # <<>>
    /\ restored = <<>>
    /\ LET r == from_json(wire[1], Len(generated))
       IN  /\ restored' = <<r>>
           /\ generated' = generated \o Draws(Len(generated), r.n)
    /\ UNCHANGED <<call, export, cols, params, received, wire, out>>
    /\ UNCHANGED clientVars

\* to_json of the document that from_json returned
ToJsonRestored ==
    /\ restored # <<>>
    /\ restored[1].ok
    /\ out = <<>>
    /\ out' = <<to_json(restored[1].v)>>
    /\ UNCHANGED <<generated, call, export, cols, params, received, wire, restored>>
    /\ UNCHANGED clientVars

(***************************************************************************)
(* JSON texts from outside: the serialization of a document with one of    *)
(* everything, as it is or changed in one place.                           *)
(***************************************************************************)
FullExport ==
    Construct("GenieSpaceExport",
        [config |-> Construct("GenieSpaceConfig",
            [sample_questions |-> PyList(<<
                SampleQuestion_from_text(
                    [question |-> PyStr(<<"a", NL, "b">>), id |-> PyStr(<<"q">>)], 0).v>>)],
            0).v,
         data_sources |-> Construct("DataSources",
            [tables |-> PyList(<<
                Table_create(
                    [identifier |-> AName, description |-> PyStr(<<"a">>),
                     column_configs |-> PyList(<<
                        ColumnConfig_create(
                            [column_name |-> AName, description |-> PyStr(<<"a">>),
                             synonyms |-> StrList(<< <<"a">> >>),
                             get_example_values |-> PyBool(TRUE)], 0).v,
                        ColumnConfig_create(
                            [column_name |-> PyStr(<<"d">>),
                             build_value_dictionary |-> PyBool(TRUE)], 0).v>>)], 0).v>>),
             metric_views |-> PyList(<<
                MetricView_create(
                    [identifier |-> AName, description |-> PyStr(<<"a">>)], 0).v>>)],
            0).v,
         instructions |-> Construct("Instructions",
            [text_instructions |-> PyList(<<
                TextInstruction_from_text(
                    [content |-> PyStr(<<"a">>), id |-> PyStr(<<"t">>)], 0).v>>),
             example_question_sqls |-> PyList(<<
                ExampleQuestionSql_create(
                    [question |-> PyStr(<<"a">>), sql |-> PyStr(<<"a", NL, "b">>),
                     parameters |-> PyList(<<
                        Parameter_create(
                            [name |-> AName, type_hint |-> AName,
                             description |-> PyStr(<<"a">>)], 0).v>>),
                     usage_guidance |-> PyStr(<<"a">>), id |-> PyStr(<<"e">>)], 0).v>>),
             sql_functions |-> PyList(<<
                Construct("SqlFunction",
                    [id |-> PyStr(<<"f">>), identifier |-> AName], 0).v>>),
             join_specs |-> PyList(<<
                JoinSpec_create(
                    [left_identifier |-> AName, left_alias |-> PyStr(<<"l">>),
                     right_identifier |-> AName, right_alias |-> PyStr(<<"r">>),
                     join_condition |-> PyStr(<<"a">>), comment |-> PyStr(<<"a">>),
                     id |-> PyStr(<<"j">>)], 0).v>>)],
            0).v,
         benchmarks |-> Construct("Benchmarks",
            [questions |-> PyList(<<
                BenchmarkQuestion_create(
                    [question |-> PyStr(<<"a">>), sql_answer |-> PyStr(<<"a">>),
                     id |-> PyStr(<<"b">>)], 0).v>>)],
            0).v],
        0).v

FullDoc == model_dump(FullExport)

Idle ==
    /\ Building
    /\ export = EmptyExport
    /\ cols = <<>>
    /\ params = <<>>

\* a valid document has arrived and is not parsed yet
Arrived == received.kind = "valid" /\ restored = <<>>

\* every declared field that the document holds, with its path
Held(text) == FieldPaths(TModel("GenieSpaceExport"), text.doc, <<>>)

Receive(text, what) ==
    /\ wire' = <<text>>
    /\ received' = what
    /\ UNCHANGED <<generated, call, export, cols, params, restored, out>>

\* a valid document, with one of everything or with nothing at all
ReceiveValid ==
    /\ Idle
    /\ \E doc \in {FullDoc, JObject(<<>>)} :
           Receive(JsonText(doc), [kind |-> "valid"])
    /\ UNCHANGED clientVars

ReceiveNotJson ==
    /\ Idle
    /\ Receive(NotJsonText, [kind |-> "not_json"])
    /\ UNCHANGED clientVars

\* a field of the document is left out
ReceiveWithout ==
    /\ Arrived
    /\ \E p \in Held(wire[1]) :
           Receive(JsonText(JDel(wire[1].doc, p.path)),
                   [kind |-> "without", path |-> p.path, field |-> p.field])
    /\ UNCHANGED clientVars

\* a field of the document is null
ReceiveNull ==
    /\ Arrived
    /\ \E p \in Held(wire[1]) :
           Receive(JsonText(JSet(wire[1].doc, p.path, JNull)),
                   [kind |-> "null", path |-> p.path, field |-> p.field])
    /\ UNCHANGED clientVars

\* a field that is a sequence or a nested record holds a scalar
ReceiveScalar ==
    /\ Arrived
    /\ \E p \in {q \in Held(wire[1]) : StripOptional(q.field.type).k \in {"list", "model"}},
          x \in {JString(<<"a">>), JNumber(1), JBool(TRUE)} :
           Receive(JsonText(JSet(wire[1].doc, p.path, x)),
                   [kind |-> "scalar", path |-> p.path, field |-> p.field])
    /\ UNCHANGED clientVars

\* a sequence field holds the empty sequence
ReceiveEmpty ==
    /\ Arrived
    /\ \E p \in {q \in Held(wire[1]) : StripOptional(q.field.type).k = "list"} :
           Receive(JsonText(JSet(wire[1].doc, p.path, JArray(<<>>))),
                   [kind |-> "empty", path |-> p.path, field |-> p.field])
    /\ UNCHANGED clientVars

\* the format of a benchmark answer is not SQL
ReceiveFormat ==
    /\ Arrived
    /\ \E p \in {q \in Held(wire[1]) : q.field.name = "format"},
          x \in {<<"s", "q", "l">>, <<"S", "Q">>, <<>>} :
           Receive(JsonText(JSet(wire[1].doc, p.path, JString(x))),
                   [kind |-> "format", path |-> p.path, field |-> p.field])
    /\ UNCHANGED clientVars

\* a record of the document holds a key that its class does not declare
ReceiveUnknownKey ==
    /\ Arrived
    /\ \E path \in ModelPaths(wire[1].doc),
          x \in {JNull, JString(<<"a">>), JArray(<<>>), JObject(<<>>)} :
           Receive(JsonText(JSet(wire[1].doc, path \o <<Key("unknown")>>, x)),
                   [kind |-> "unknown_key", path |-> path \o <<Key("unknown")>>])
    /\ UNCHANGED clientVars

\* a flag of a column holds a boolean
ReceiveFlag ==
    /\ Arrived
    /\ \E p \in {q \in Held(wire[1]) : q.field.name = "column_name"},
          flag \in FlagNames, b \in BOOLEAN :
           LET path == SubSeq(p.path, 1, Len(p.path) - 1) \o <<Key(flag)>>
           IN  Receive(JsonText(JSet(wire[1].doc, path, JBool(b))),
                       [kind |-> "flag", path |-> path])
    /\ UNCHANGED clientVars

\* a record holds the id of another record
ReceiveSameId ==
    /\ Arrived
    /\ \E p, q \in {x \in Held(wire[1]) : x.field.name = "id"} :
           /\ p # q
           /\ Receive(JsonText(JSet(wire[1].doc, p.path, JGet(wire[1].doc, q.path))),
                      [kind |-> "same_id", path |-> p.path])
    /\ UNCHANGED clientVars

Next ==
    \/ AddSampleQuestion
    \/ CreateColumnConfig
    \/ ConstructColumnConfig
    \/ AddTable
    \/ AddMetricView
    \/ AddTextInstruction
    \/ CreateParameter
    \/ AddExampleQuestionSql
    \/ AddSqlFunction
    \/ AddJoinSpec
    \/ AddBenchmarkQuestion
    \/ ToJson
    \/ FromJson
    \/ ToJsonRestored
    \/ ReceiveValid
    \/ ReceiveNotJson
    \/ ReceiveWithout
    \/ ReceiveNull
    \/ ReceiveScalar
    \/ ReceiveEmpty
    \/ ReceiveFormat
    \/ ReceiveUnknownKey
    \/ ReceiveFlag
    \/ ReceiveSameId

Spec == Init /\ [][Next]_vars

(***************************************************************************)
(* Properties.                                                             *)
(***************************************************************************)
Range(seq) == {seq[i] : i \in DOMAIN seq}

\* "\n".join(lines)
RECURSIVE JoinLines(_)
JoinLines(lines) ==
    IF lines = <<>> THEN <<>>
    ELSE IF Len(lines) = 1 THEN lines[1]
    ELSE lines[1] \o <<NL>> \o JoinLines(Tail(lines))

\* the list[str] value v holds the lines of the text s, in order
IsLinesOf(v, s) ==
    /\ v.t = "list"
    /\ Len(v.a) >= 1
    /\ \A i \in DOMAIN v.a : v.a[i].t = "str" /\ NL \notin Range(v.a[i].s)
    /\ JoinLines([i \in DOMAIN v.a |-> v.a[i].s]) = s

\* what to_json has produced so far: the Python document and its JSON
Outputs ==
    (IF received.kind = "nothing" /\ wire # <<>>
     THEN {[py |-> export, doc |-> wire[1].doc]} ELSE {})
    \cup (IF out # <<>> THEN {[py |-> restored[1].v, doc |-> out[1].doc]} ELSE {})

\* the paths of the ColumnConfig records of an output
ColumnPaths(o) ==
    {p \in ModelPaths(o.doc) : PyGet(o.py, p).cls = "ColumnConfig"}

RECURSIVE HasNull(_)
HasNull(j) ==
    CASE j.t = "null" -> TRUE
      [] j.t = "array" -> \E i \in DOMAIN j.a : HasNull(j.a[i])
      [] j.t = "object" -> \E k \in DOMAIN j.o : HasNull(j.o[k])
      [] OTHER -> FALSE

Parsed == restored # <<>>

\* C1: the document that from_json returns for the to_json text of a built
\* export equals that export, field by field (sequences, ids, flags).
ThmC1 ==
    (received.kind = "nothing" /\ Parsed) =>
        /\ restored[1].ok
        /\ restored[1].v = export

WitC1 ==
    /\ received.kind = "nothing"
    /\ Parsed
    /\ restored[1].ok
    /\ PyGet(restored[1].v,
             <<Key("data_sources"), Key("tables"), Index(1), Key("column_configs"),
               Index(1), Key("build_value_dictionary")>>) = PyBool(TRUE)
    /\ PyGet(restored[1].v,
             <<Key("data_sources"), Key("tables"), Index(1), Key("column_configs"),
               Index(1), Key("exclude")>>) = PyNone

ThmC3 ==
    call.fn = "ColumnConfig.create" =>
        \A flag \in FlagNames :
            LET passed == flag \in DOMAIN call.kw
                without == [k \in DOMAIN call.kw \ {flag} |-> call.kw[k]]
                other == ColumnConfig_create(without, Len(call.before)).v
            IN  /\ (passed /\ call.kw[flag] = PyBool(FALSE)) =>
                       /\ call.result = other
                       /\ to_json(call.result) = to_json(other)
                       /\ to_dict(call.result) = to_dict(other)
                       /\ call.result.f[flag] = PyNone
                /\ call.result.f[flag] =
                       IF passed /\ call.kw[flag] = PyBool(TRUE)
                       THEN PyBool(TRUE) ELSE PyNone

WitC3 ==
    /\ call.fn = "ColumnConfig.create"
    /\ "exclude" \in DOMAIN call.kw
    /\ call.kw["exclude"] = PyBool(FALSE)
    /\ "build_value_dictionary" \in DOMAIN call.kw
    /\ call.kw["build_value_dictionary"] = PyBool(TRUE)
    /\ call.result.f["exclude"] = PyNone
    /\ call.result.f["build_value_dictionary"] = PyBool(TRUE)

\* C4: no output of to_json holds a null at any depth, and an export whose
\* config, data_sources, instructions and benchmarks are all absent is written
\* as an object whose only key is version.
ThmC4 ==
    \A o \in Outputs :
        /\ ~HasNull(o.doc)
        /\ ~HasNull(to_dict(o.py))
        /\ (\A k \in {"config", "data_sources", "instructions", "benchmarks"} :
               o.py.f[k] = PyNone)
           => (o.doc.t = "object" /\ DOMAIN o.doc.o = {"version"})

WitC4 ==
    /\ received.kind = "nothing"
    /\ export = EmptyExport
    /\ wire = <<JsonText(JObject([version |-> JNumber(1)]))>>

\* C5 as claimed: for every text s, SampleQuestion.from_text(s).question and
\* TextInstruction.from_text(s).content are the lines of s in order, and
\* joining them with "\n" gives back s.
OrigC5 ==
    /\ call.fn = "SampleQuestion.from_text" =>
           IsLinesOf(call.result.f["question"], call.kw["question"].s)
    /\ call.fn = "TextInstruction.from_text" =>
           IsLinesOf(call.result.f["content"], call.kw["content"].s)

\* C5 as amended: SampleQuestion.from_text(s).question is the lines of s for
\* every s; TextInstruction.from_text(s).content is the lines of s for every
\* non-empty s, and is absent for the empty text.
ThmC5 ==
    /\ call.fn = "SampleQuestion.from_text" =>
           IsLinesOf(call.result.f["question"], call.kw["question"].s)
    /\ call.fn = "TextInstruction.from_text" =>
           IF call.kw["content"].s = <<>>
           THEN call.result.f["content"] = PyNone
           ELSE IsLinesOf(call.result.f["content"], call.kw["content"].s)

WitC5 ==
    /\ call.fn = "TextInstruction.from_text"
    /\ call.kw["content"].s = <<"a", NL, "a">>
    /\ call.result.f["content"] = StrList(<< <<"a">>, <<"a">> >>)

IsOptionalSequence(field) ==
    field.type.k = "optional" /\ field.type.of.k = "list"

\* C6: an optional sequence field that the parsed text holds as an empty
\* sequence is an empty sequence in memory and in the text written back; one
\* that the text leaves out (or holds as null) is absent in memory and in the
\* text written back.
ThmC6 ==
    /\ (received.kind = "empty" /\ IsOptionalSequence(received.field)) =>
           /\ Parsed => /\ restored[1].ok
                        /\ PyGet(restored[1].v, received.path) = PyList(<<>>)
           /\ out # <<>> => JGet(out[1].doc, received.path) = JArray(<<>>)
    /\ (received.kind \in {"without", "null"} /\ IsOptionalSequence(received.field)) =>
           /\ Parsed => /\ restored[1].ok
                        /\ PyGet(restored[1].v, received.path) = PyNone
           /\ out # <<>> => JGet(out[1].doc, received.path) = Missing

WitC6 ==
    /\ received.kind = "empty"
    /\ received.field.name = "synonyms"
    /\ out # <<>>
    /\ JGet(wire[1].doc, received.path) = JArray(<<>>)
    /\ JGet(out[1].doc, received.path) = JArray(<<>>)

\* the optional sequence fields a factory fills from a text argument, and
\* from a list argument
TextFieldsOf(fn) ==
    CASE fn \in {"ColumnConfig.create", "Table.create", "MetricView.create",
                 "Parameter.create"} -> {"description"}
      [] fn = "ExampleQuestionSql.create" -> {"usage_guidance"}
      [] fn = "JoinSpec.create" -> {"comment"}
      [] fn = "TextInstruction.from_text" -> {"content"}
      [] OTHER -> {}

ListFieldsOf(fn) ==
    CASE fn = "ColumnConfig.create" -> {"synonyms"}
      [] fn = "Table.create" -> {"column_configs"}
      [] fn = "ExampleQuestionSql.create" -> {"parameters"}
      [] OTHER -> {}

AbsentOrNonEmpty(v) == v = PyNone \/ (v.t = "list" /\ v.a # <<>>)

NoneOrEmptyText(arg) == arg = PyNone \/ (arg.t = "str" /\ arg.s = <<>>)

\* C7 as claimed: every optional sequence field of a factory's result is
\* absent or non-empty, also when an empty list or text was passed for it.
OrigC7 ==
    \A field \in TextFieldsOf(call.fn) \cup ListFieldsOf(call.fn) :
        AbsentOrNonEmpty(call.result.f[field])

\* C7 as amended: a field filled from a text argument is absent when the text
\* is not passed or empty and a non-empty sequence otherwise; a field filled
\* from a list argument holds the list as passed, an empty list included.
ThmC7 ==
    /\ \A field \in TextFieldsOf(call.fn) :
           IF NoneOrEmptyText(Arg(call.kw, field, PyNone))
           THEN call.result.f[field] = PyNone
           ELSE call.result.f[field].t = "list" /\ call.result.f[field].a # <<>>
    /\ \A field \in ListFieldsOf(call.fn) :
           call.result.f[field] = Arg(call.kw, field, PyNone)

WitC7 ==
    /\ call.fn = "ColumnConfig.create"
    /\ "description" \in DOMAIN call.kw
    /\ call.kw["description"] = PyStr(<<>>)
    /\ call.result.f["description"] = PyNone
    /\ "synonyms" \in DOMAIN call.kw
    /\ call.result.f["synonyms"] = PyList(<<>>)

\* the ids of the records of a document, in document order
Ids(v) ==
    LET all == Instances(v)
        with == {i \in DOMAIN all : "id" \in DOMAIN all[i].f}
    IN  [i \in with |-> all[i].f["id"]]

UniqueIds(v) ==
    \A i, j \in DOMAIN Ids(v) : i # j => Ids(v)[i] # Ids(v)[j]

\* C8 as claimed: no two records of an export that was built or parsed
\* carry the same id.
OrigC8 ==
    /\ UniqueIds(export)
    /\ (Parsed /\ restored[1].ok) => UniqueIds(restored[1].v)

IdFactories ==
    {"SampleQuestion.from_text", "TextInstruction.from_text",
     "ExampleQuestionSql.create", "JoinSpec.create", "BenchmarkQuestion.create"}

IsHexToken(s) ==
    /\ Len(s) = 32
    /\ \A i \in DOMAIN s :
           s[i] \in {"0", "1", "2", "3", "4", "5", "6", "7",
                     "8", "9", "a", "b", "c", "d", "e", "f"}

\* the id of the last call's result is new: a 32-character hex token that
\* no earlier generate_id call returned
FreshId ==
    /\ call.result.f["id"].t = "str"
    /\ IsHexToken(call.result.f["id"].s)
    /\ call.result.f["id"].s \notin Range(call.before)
    /\ \A i, j \in DOMAIN generated : i # j => generated[i] # generated[j]

IdPassed == "id" \in DOMAIN call.kw /\ call.kw["id"] # PyNone

\* C9 as claimed: a record made without an explicit id gets a fresh
\* 32-character hex id; a record made with an explicit id keeps that id.
OrigC9 ==
    call.fn \in IdFactories \cup {"SampleQuestion"} =>
        IF IdPassed THEN call.result.f["id"] = call.kw["id"] ELSE FreshId

\* C9 as amended: a factory keeps an explicit id that is not empty and
\* generates a fresh id when the id is not passed, None or the empty string;
\* the class constructor keeps every explicit id and generates a fresh one
\* when none is passed.
ThmC9 ==
    /\ call.fn \in IdFactories =>
           IF IdPassed /\ call.kw["id"].s # <<>>
           THEN call.result.f["id"] = call.kw["id"]
           ELSE FreshId
    /\ call.fn = "SampleQuestion" =>
           IF "id" \in DOMAIN call.kw
           THEN call.result.f["id"] = call.kw["id"]
           ELSE FreshId

WitC9 ==
    /\ call.fn = "SampleQuestion.from_text"
    /\ "id" \notin DOMAIN call.kw
    /\ Len(call.before) = 2
    /\ Len(generated) = 3
    /\ call.result.f["id"].s = generated[3]

\* C10: from_json fails, and returns no export, on a text that lacks a
\* required field, holds a scalar where a sequence or a nested record is
\* expected, or holds a BenchmarkAnswer format other than SQL; a key that the
\* schema does not know is ignored and the document parses as without it.
ThmC10 ==
    Parsed =>
        /\ (received.kind = "without" /\ received.field.default = Required) =>
               ~restored[1].ok
        /\ received.kind \in {"scalar", "format"} => ~restored[1].ok
        /\ received.kind = "unknown_key" =>
               /\ restored[1].ok
               /\ restored[1].v =
                      from_json(JsonText(JDel(wire[1].doc, received.path)), 0).v
        /\ ~restored[1].ok => "v" \notin DOMAIN restored[1]

WitC10 ==
    /\ received.kind = "format"
    /\ JGet(wire[1].doc, received.path) = JString(<<"s", "q", "l">>)
    /\ Parsed
    /\ ~restored[1].ok

(***************************************************************************)
(* The client (client.py).  A string that holds a whole JSON text holds it *)
(* as one unit: <<text>>, so the empty string stays <<>>.                  *)
(***************************************************************************)
\* longest host string handed to the constructor or set in the environment
MaxHost == 3

\* faulty variant: removes one trailing character at most
rstrip_once(s, c) ==
    IF s # <<>> /\ s[Len(s)] = c THEN SubSeq(s, 1, Len(s) - 1) ELSE s

\* str.rstrip(c)
RECURSIVE rstrip(_, _)
rstrip(s, c) ==
    IF s # <<>> /\ s[Len(s)] = c THEN rstrip(SubSeq(s, 1, Len(s) - 1), c) ELSE s

\* os.environ.get(name, default)
environ_get(name, default) ==
    IF name \in DOMAIN env THEN env[name] ELSE default

\* faulty variant: the right operand, whatever the left one is
or_right(a, b) == b

\* Python `a or b`
or(a, b) == IF Truthy(a) THEN a ELSE b

ValueError(message) == [raised |-> TRUE, type |-> "ValueError", message |-> message]

\* GenieSpacesClient.__init__: the client, or the error raised; the
\* httpx.Client is created last, after both checks
GenieSpacesClient(host, token) ==
    LET self_host ==
            rstrip(or(host, PyStr(environ_get("DATABRICKS_HOST", <<>>))).s, "/")
        self_token == or(token, PyStr(environ_get("DATABRICKS_TOKEN", <<>>))).s
    IN  IF self_host = <<>>
        THEN ValueError("Databricks host is required")
        ELSE IF self_token = <<>>
        THEN ValueError("Databricks token is required")
        ELSE [raised |-> FALSE,
              v |-> [constructed |-> TRUE, host |-> self_host,
                     token |-> self_token, httpx_client |-> "open"]]

(***************************************************************************)
(* Construction of a client from every combination of arguments and        *)
(* environment.                                                            *)
(***************************************************************************)
HostAlphabet == {"h", "/"}

HostTexts == UNION {[1..k -> HostAlphabet] : k \in 0..MaxHost}

TokenTexts == {<<>>, <<"t">>}

Environments ==
    {e \in UNION {[names -> HostTexts \cup TokenTexts] :
                     names \in SUBSET {"DATABRICKS_HOST", "DATABRICKS_TOKEN"}} :
        /\ "DATABRICKS_HOST" \in DOMAIN e => e["DATABRICKS_HOST"] \in HostTexts
        /\ "DATABRICKS_TOKEN" \in DOMAIN e => e["DATABRICKS_TOKEN"] \in TokenTexts}

InitConfig ==
    /\ generated = <<>>
    /\ call = NoCall
    /\ InitDoc
    /\ env \in Environments
    /\ client = NoClient
    /\ requests = <<>>
    /\ outcome = NoOutcome
    /\ decoded = <<>>
    /\ scope = NoScope
    /\ disk = NoFiles

NewClient ==
    /\ client = NoClient
    /\ outcome = NoOutcome
    /\ \E host \in {PyNone} \cup {PyStr(h) : h \in HostTexts},
          token \in {PyNone} \cup {PyStr(t) : t \in TokenTexts \cup {<<"u">>}} :
           LET r == GenieSpacesClient(host, token)
           IN  /\ outcome' = [op |-> "__init__", host |-> host, token |-> token,
                              raised |-> r.raised,
                              error |-> IF r.raised THEN r ELSE NoOutcome]
               /\ client' = IF r.raised THEN NoClient ELSE r.v
    /\ UNCHANGED <<generated, call, docVars, env, requests, decoded, scope, disk>>

NextConfig == NewClient

SpecConfig == InitConfig /\ [][NextConfig]_vars

(***************************************************************************)
(* HTTP responses and the errors of client.py.                             *)
(***************************************************************************)
BASE_PATH == <<"/api/2.0/genie/spaces">>

\* a body that is not JSON, with its text
PlainText(text) == [json |-> FALSE, text |-> text]

Response(status_code, body) == [status_code |-> status_code, body |-> body]

\* response.text
response_text(response) ==
    IF response.body.json THEN <<response.body>> ELSE response.body.text

Return(v) == [raised |-> FALSE, v |-> v]

\* GenieSpacesError and its subclasses AuthenticationError, NotFoundError
\* and ValidationError
GenieSpacesError(type, message, status_code, response) ==
    [raised |-> TRUE, type |-> type, message |-> message,
     status_code |-> status_code, response |-> response]

\* raised by `data.get` when data is a list, a str, a number or None
AttributeError == [raised |-> TRUE, type |-> "AttributeError"]

\* raised by model_validate / model_validate_json
RaisedValidationError == [raised |-> TRUE, type |-> "pydantic.ValidationError"]

\* data.get(key, default)
dict_get(data, key, default) ==
    IF data.t = "object"
    THEN Return(IF key \in DOMAIN data.o THEN data.o[key] ELSE default)
    ELSE AttributeError

\* faulty variant: the body is taken as JSON without the except clause
handle_response_no_except(response) ==
    IF ~response.body.json THEN [raised |-> TRUE, type |-> "JSONDecodeError"]
    ELSE IF response.status_code >= 400
    THEN GenieSpacesError("GenieSpacesError", <<"API error">>,
                          response.status_code, response.body.doc)
    ELSE Return(response.body.doc)

\* GenieSpacesClient._handle_response: the parsed body, or the error raised
handle_response(response) ==
    LET data == IF response.body.json THEN response.body.doc
                ELSE JObject("raw" :> JString(response.body.text))
        status_code == response.status_code
        unknown == dict_get(data, "message", JString(<<"Unknown">>))
        text == dict_get(data, "message", JString(response_text(response)))
    IN  IF status_code = 401
        THEN GenieSpacesError("AuthenticationError",
                              <<"Authentication failed. Check your token and permissions.">>,
                              status_code, data)
        ELSE IF status_code = 404
        THEN IF unknown.raised THEN unknown
             ELSE GenieSpacesError("NotFoundError",
                                   <<"Resource not found: ", unknown.v>>,
                                   status_code, data)
        ELSE IF status_code = 400
        THEN IF unknown.raised THEN unknown
             ELSE GenieSpacesError("ValidationError",
                                   <<"Validation error: ", unknown.v>>,
                                   status_code, data)
        ELSE IF status_code >= 400
        THEN IF text.raised THEN text
             ELSE GenieSpacesError("GenieSpacesError", <<"API error: ", text.v>>,
                                   status_code, data)
        ELSE Return(data)

\* SpaceResponse.model_validate(data)
model_validate(cls, data) ==
    LET r == Validate(TModel(cls), data, 0)
    IN  IF r.ok THEN Return(r.v) ELSE RaisedValidationError

\* SpaceResponse.get_export; n is the number of ids generated so far
get_export(self, n) ==
    IF Truthy(self.f.serialized_space)
    THEN LET r == from_json(self.f.serialized_space.s[1], n)
         IN  IF r.ok THEN [raised |-> FALSE, v |-> r.v, n |-> r.n]
             ELSE [raised |-> TRUE, type |-> "pydantic.ValidationError", n |-> r.n]
    ELSE [raised |-> FALSE, v |-> PyNone, n |-> n]

(***************************************************************************)
(* The operations of the client.  Each takes the response(s) the server    *)
(* gives to the request(s) it issues; the result is the requests issued,   *)
(* in order, what the call returned or raised, and the number of ids       *)
(* generated afterwards.                                                   *)
(***************************************************************************)
Request(method, url, query, json) ==
    [method |-> method, url |-> url, params |-> query, json |-> json]

NoParams == <<>>
NoJson == [t |-> "none"]

\* faulty variant: a request that ended in an error is issued again
Done_retried(reqs, result, n) ==
    [requests |-> IF result.raised THEN reqs \o reqs ELSE reqs,
     result |-> result, n |-> n]

Done(reqs, result, n) == [requests |-> reqs, result |-> result, n |-> n]

\* `data = self._handle_response(response)` followed by
\* `return SpaceResponse.model_validate(data)`
validated(data) ==
    IF data.raised THEN data ELSE model_validate("SpaceResponse", data.v)

export_space(space_id, response, n) ==
    Done(<<Request("GET", BASE_PATH \o <<"/">> \o space_id.s,
                   "include_serialized_space" :> "true", NoJson)>>,
         validated(handle_response(response)), n)

\* faulty variant: the entry is set whatever the value
IfSet_always(key, value) == key :> value

\* the entries of the payload that are set under `if value:`
IfSet(key, value) == IF Truthy(value) THEN key :> value ELSE <<>>

\* faulty variant: the argument is put in the payload as it is
as_json_str_verbatim(serialized_space) == serialized_space

\* `serialized_space.to_json()` when the argument is a GenieSpaceExport
as_json_str(serialized_space) ==
    IF serialized_space.t = "model" THEN PyStr(<<to_json(serialized_space)>>)
    ELSE serialized_space

import_space(kw, response, n) ==
    Done(<<Request("POST", BASE_PATH, NoParams,
                   IfSet("description", Arg(kw, "description", PyNone))
                   @@ IfSet("title", Arg(kw, "title", PyNone))
                   @@ [warehouse_id |-> kw.warehouse_id,
                       parent_path |-> kw.parent_path,
                       serialized_space |-> as_json_str(kw.serialized_space)])>>,
         validated(handle_response(response)), n)

\* faulty variant: the test is `if serialized_space:`
IfNotNone_truthy(key, value) ==
    IF Truthy(value) THEN key :> as_json_str(value) ELSE <<>>

\* `if serialized_space is not None:`
IfNotNone(key, value) ==
    IF value # PyNone THEN key :> as_json_str(value) ELSE <<>>

update_space(kw, response, n) ==
    Done(<<Request("PATCH", BASE_PATH \o <<"/">> \o kw.space_id.s, NoParams,
                   IfSet("description", Arg(kw, "description", PyNone))
                   @@ IfSet("title", Arg(kw, "title", PyNone))
                   @@ IfSet("parent_path", Arg(kw, "parent_path", PyNone))
                   @@ IfSet("warehouse_id", Arg(kw, "warehouse_id", PyNone))
                   @@ IfNotNone("serialized_space",
                                Arg(kw, "serialized_space", PyNone)))>>,
         validated(handle_response(response)), n)

\* faulty variant: the second request is issued before the first
Then_reversed(first, second) ==
    Done(second.requests \o first.requests, second.result, second.n)

\* one call after another: the requests of both, the result of the second
Then(first, second) ==
    Done(first.requests \o second.requests, second.result, second.n)

\* the call ends with the error that a step inside it raised
Raised(first, error) ==
    Done(first.requests, [raised |-> TRUE, type |-> error.type], error.n)

\* faulty variant: the missing document is not checked for
EmptySource_unchecked == [raised |-> TRUE, type |-> "AttributeError"]

EmptySource ==
    GenieSpacesError("GenieSpacesError",
                     <<"Source space export returned empty serialized_space">>,
                     PyNone, PyNone)

\* faulty variant: the source title as it is
copy_title_verbatim(title, source) == or(title, source.f.title)

\* `title or f"{source.title} (Copy)"`
copy_title(title, source) == or(title, PyStr(source.f.title.s \o <<" (Copy)">>))

\* faulty variant: the string of the source envelope is posted as it is
clone_export_source_string(kw, responses, source, export_) ==
    IF export_.raised THEN Raised(source, export_)
    ELSE IF export_.v = PyNone THEN Done(source.requests, EmptySource, export_.n)
    ELSE Then(source,
              import_space(
                  [warehouse_id |-> kw.warehouse_id,
                   parent_path |-> kw.parent_path,
                   serialized_space |-> source.result.v.f.serialized_space,
                   title |-> copy_title(Arg(kw, "title", PyNone), source.result.v),
                   description |-> or(Arg(kw, "description", PyNone),
                                      source.result.v.f.description)],
                  responses[2], export_.n))

\* clone_space from `if export is None:` on
clone_export(kw, responses, source, export_) ==
    IF export_.raised THEN Raised(source, export_)
    ELSE IF export_.v = PyNone THEN Done(source.requests, EmptySource, export_.n)
    ELSE Then(source,
              import_space(
                  [warehouse_id |-> kw.warehouse_id,
                   parent_path |-> kw.parent_path,
                   serialized_space |-> export_.v,
                   title |-> copy_title(Arg(kw, "title", PyNone), source.result.v),
                   description |-> or(Arg(kw, "description", PyNone),
                                      source.result.v.f.description)],
                  responses[2], export_.n))

\* clone_space from `export = source.get_export()` on
clone_source(kw, responses, source) ==
    IF source.result.raised THEN source
    ELSE clone_export(kw, responses, source, get_export(source.result.v, source.n))

clone_space(kw, responses, n) ==
    clone_source(kw, responses, export_space(kw.source_space_id, responses[1], n))

EmptyExports ==
    GenieSpacesError("GenieSpacesError",
                     <<"One or both spaces returned empty exports">>, PyNone, PyNone)

\* faulty variant: each document under the other space's key
diff_exports_swapped(space_id_1, space_id_2, both, export1, export2) ==
    IF export2.raised THEN Raised(both, export2)
    ELSE IF export1.v = PyNone \/ export2.v = PyNone
    THEN Done(both.requests, EmptyExports, export2.n)
    ELSE Done(both.requests,
              Return([space_1 |-> space_id_1, space_2 |-> space_id_2,
                      config_1 |-> to_dict(export2.v),
                      config_2 |-> to_dict(export1.v)]),
              export2.n)

\* diff_spaces from `if export1 is None or export2 is None:` on
diff_exports(space_id_1, space_id_2, both, export1, export2) ==
    IF export2.raised THEN Raised(both, export2)
    ELSE IF export1.v = PyNone \/ export2.v = PyNone
    THEN Done(both.requests, EmptyExports, export2.n)
    ELSE Done(both.requests,
              Return([space_1 |-> space_id_1, space_2 |-> space_id_2,
                      config_1 |-> to_dict(export1.v),
                      config_2 |-> to_dict(export2.v)]),
              export2.n)

\* diff_spaces: `.get_export()` of the second export
diff_second(space_id_1, space_id_2, both, export1) ==
    IF both.result.raised THEN both
    ELSE diff_exports(space_id_1, space_id_2, both, export1,
                      get_export(both.result.v, both.n))

\* faulty variant: the first export is tested for None before the second
\* request
diff_export1_checked_early(space_id_1, space_id_2, responses, first, export1) ==
    IF export1.raised THEN Raised(first, export1)
    ELSE IF export1.v = PyNone THEN Done(first.requests, EmptyExports, export1.n)
    ELSE diff_second(space_id_1, space_id_2,
                     Then(first, export_space(space_id_2, responses[2], export1.n)),
                     export1)

\* diff_spaces: the second export_space, after the first get_export
diff_export1(space_id_1, space_id_2, responses, first, export1) ==
    IF export1.raised THEN Raised(first, export1)
    ELSE diff_second(space_id_1, space_id_2,
                     Then(first, export_space(space_id_2, responses[2], export1.n)),
                     export1)

\* diff_spaces: `.get_export()` of the first export
diff_first(space_id_1, space_id_2, responses, first) ==
    IF first.result.raised THEN first
    ELSE diff_export1(space_id_1, space_id_2, responses, first,
                      get_export(first.result.v, first.n))

diff_spaces(space_id_1, space_id_2, responses, n) ==
    diff_first(space_id_1, space_id_2, responses,
               export_space(space_id_1, responses[1], n))

(***************************************************************************)
(* Calls on a constructed client.  The server answers each request with    *)
(* any status and any body: an envelope, an error object, JSON that is no  *)
(* object, or text that is not JSON.                                       *)
(***************************************************************************)
\* number of get_export calls on one envelope, at most
MaxDecodes == 2

Statuses == {200, 302, 400, 401, 403, 404, 500}

\* the document of the export fixture: one sample question
QuestionDoc(question) ==
    JObject([version |-> JNumber(1),
             config |-> JObject([sample_questions |-> JArray(<<JObject(question)>>)])])

DocWithIds ==
    QuestionDoc([id |-> JString(<<"q">>), question |-> JArray(<<JString(<<"a">>)>>)])

\* the sample question carries no id
DocWithoutId == QuestionDoc([question |-> JArray(<<JString(<<"a">>)>>)])

\* the sample question lacks its required question
DocInvalid == QuestionDoc([id |-> JString(<<"q">>)])

\* a key the schema does not know, and a key that holds null
DocWithExtras ==
    JObject([version |-> JNumber(1), unknown |-> JString(<<"x">>),
             data_sources |-> JNull,
             config |-> JObject([sample_questions |-> JArray(<<JObject(
                 [id |-> JString(<<"q">>), question |-> JArray(<<JString(<<"a">>)>>),
                  unknown |-> JNumber(1)])>>)])])

SerializedTexts ==
    {JsonText(DocWithIds), JsonText(DocWithoutId), JsonText(DocInvalid),
     JsonText(DocWithExtras), NotJsonText}

Envelope(more) ==
    JObject(more @@ [space_id |-> JString(<<"s">>), title |-> JString(<<"T">>)])

Envelopes ==
    {Envelope(<<>>), Envelope([serialized_space |-> JNull]),
     Envelope([serialized_space |-> JString(<<>>)])}
    \cup {Envelope([serialized_space |-> JString(<<text>>)]) : text \in SerializedTexts}
    \cup {Envelope([serialized_space |-> JString(<<JsonText(DocWithIds)>>),
                    description |-> JString(d),
                    warehouse_id |-> JString(<<"w">>)]) : d \in {<<>>, <<"d">>}}
    \cup {Envelope([description |-> JString(<<"d">>)])}

\* an object that is no envelope: space_id or title is missing
NotEnvelopes ==
    {JObject([title |-> JString(<<"T">>)]), JObject([space_id |-> JString(<<"s">>)])}

ErrorBodies ==
    {JsonText(JObject([message |-> JString(<<"m">>)])), JsonText(JObject(<<>>)),
     JsonText(JArray(<<>>)), JsonText(JString(<<"m">>)), JsonText(JNumber(1)),
     JsonText(JNull), PlainText(<<"Server Error">>), PlainText(<<>>)}

Responses ==
    {Response(status_code, body) : status_code \in Statuses, body \in ErrorBodies}
    \cup {Response(200, JsonText(doc)) : doc \in Envelopes \cup NotEnvelopes}
    \cup {Response(status_code, JsonText(Envelope(<<>>))) : status_code \in {302, 404}}

SpaceIds == {PyStr(<<"s", "1">>), PyStr(<<"s", "2">>)}

OptText(x) == {PyNone, PyStr(<<>>), PyStr(<<x>>)}

ImportKw ==
    {[warehouse_id |-> PyStr(<<"w">>), parent_path |-> PyStr(<<"p">>),
      serialized_space |-> serialized_space, title |-> title,
      description |-> description] :
        serialized_space \in {PyStr(<<JsonText(DocWithIds)>>), PyStr(<<>>), EmptyExport},
        title \in OptText("X"), description \in OptText("Y")}

UpdateKw ==
    {[space_id |-> PyStr(<<"s", "1">>), serialized_space |-> serialized_space,
      warehouse_id |-> warehouse_id, parent_path |-> parent_path, title |-> title,
      description |-> description] :
        serialized_space \in {PyNone, PyStr(<<JsonText(DocWithIds)>>), PyStr(<<>>),
                              EmptyExport},
        warehouse_id \in OptText("w"), parent_path \in OptText("p"),
        title \in OptText("X"), description \in OptText("Y")}

CloneKw ==
    {[source_space_id |-> PyStr(<<"s", "1">>), warehouse_id |-> PyStr(<<"w">>),
      parent_path |-> PyStr(<<"p">>), title |-> title, description |-> description] :
        title \in OptText("X"), description \in OptText("Y")}

\* the client of the tests: GenieSpacesClient(host="h/", token="t")
InitClient ==
    /\ generated = <<>>
    /\ call = NoCall
    /\ InitDoc
    /\ env = <<>>
    /\ client = GenieSpacesClient(PyStr(<<"h", "/">>), PyStr(<<"t">>)).v
    /\ requests = <<>>
    /\ outcome = NoOutcome
    /\ decoded = <<>>
    /\ scope = NoScope
    /\ disk = NoFiles

Ready ==
    /\ client.constructed
    /\ client.httpx_client = "open"
    /\ outcome = NoOutcome

\* the call is over: r holds the requests it issued and its result; the
\* responses kept are those of the requests that were issued
Finish(op, kw, responses, r) ==
    /\ outcome' = [op |-> op, kw |-> kw,
                   responses |-> [i \in DOMAIN responses \cap 1..Len(r.requests) |->
                                     responses[i]],
                   raised |-> r.result.raised, result |-> r.result]
    /\ requests' = requests \o r.requests
    /\ generated' = generated \o Draws(Len(generated), r.n)
    /\ UNCHANGED <<call, docVars, env, client, decoded, scope, disk>>

ExportSpace ==
    /\ Ready
    /\ \E space_id \in SpaceIds, response \in Responses :
           Finish("export_space", [space_id |-> space_id], <<response>>,
                  export_space(space_id, response, Len(generated)))

ImportSpace ==
    /\ Ready
    /\ \E kw \in ImportKw, response \in Responses :
           Finish("import_space", kw, <<response>>,
                  import_space(kw, response, Len(generated)))

UpdateSpace ==
    /\ Ready
    /\ \E kw \in UpdateKw, response \in Responses :
           Finish("update_space", kw, <<response>>,
                  update_space(kw, response, Len(generated)))

CloneSpace ==
    /\ Ready
    /\ \E kw \in CloneKw, first \in Responses, second \in Responses :
           Finish("clone_space", kw, <<first, second>>,
                  clone_space(kw, <<first, second>>, Len(generated)))

DiffSpaces ==
    /\ Ready
    /\ \E first \in Responses, second \in Responses :
           Finish("diff_spaces",
                  [space_id_1 |-> PyStr(<<"s", "1">>), space_id_2 |-> PyStr(<<"s", "2">>)],
                  <<first, second>>,
                  diff_spaces(PyStr(<<"s", "1">>), PyStr(<<"s", "2">>),
                              <<first, second>>, Len(generated)))

\* the caller decodes the envelope that the call returned
GetExport ==
    /\ outcome.op \in {"export_space", "import_space", "update_space", "clone_space"}
    /\ ~outcome.raised
    /\ Len(decoded) < MaxDecodes
    /\ LET r == get_export(outcome.result.v, Len(generated))
       IN  /\ decoded' = Append(decoded, [raised |-> r.raised,
                                          v |-> IF r.raised THEN PyNone ELSE r.v])
           /\ generated' = generated \o Draws(Len(generated), r.n)
    /\ UNCHANGED <<call, docVars, env, client, requests, outcome, scope, disk>>

NextClient ==
    \/ ExportSpace
    \/ ImportSpace
    \/ UpdateSpace
    \/ CloneSpace
    \/ DiffSpaces
    \/ GetExport

SpecClient == InitClient /\ [][NextClient]_vars

(***************************************************************************)
(* Properties of the client's construction.                                *)
(***************************************************************************)
\* the value a setting resolves to: the argument when it is a non-empty
\* string, otherwise the environment variable, otherwise nothing
Resolved(arg, name) ==
    IF arg # PyNone /\ arg.s # <<>> THEN arg.s
    ELSE IF name \in DOMAIN env THEN env[name] ELSE <<>>

OnlySeparators(s) == \A i \in DOMAIN s : s[i] = "/"

\* s without its trailing separators
IsStripped(stripped, s) ==
    /\ Len(stripped) <= Len(s)
    /\ stripped = SubSeq(s, 1, Len(stripped))
    /\ OnlySeparators(SubSeq(s, Len(stripped) + 1, Len(s)))
    /\ stripped # <<>> => stripped[Len(stripped)] # "/"

Constructing == outcome.op = "__init__"

\* C15: the constructor takes the host and the token from the argument when
\* it is given and from DATABRICKS_HOST / DATABRICKS_TOKEN otherwise; it
\* raises ValueError (the configuration error), and creates no httpx client,
\* exactly when the host or the token resolves to nothing, which includes
\* every case where it is absent or empty in both sources.
ThmC15 ==
    Constructing =>
        LET h == Resolved(outcome.host, "DATABRICKS_HOST")
            t == Resolved(outcome.token, "DATABRICKS_TOKEN")
        IN  /\ outcome.raised <=> (OnlySeparators(h) \/ t = <<>>)
            /\ outcome.raised =>
                   /\ outcome.error.type = "ValueError"
                   /\ client = NoClient
            /\ ~outcome.raised =>
                   /\ client.constructed
                   /\ client.httpx_client = "open"
                   /\ IsStripped(client.host, h)
                   /\ client.token = t

WitC15 ==
    /\ Constructing
    /\ outcome.host = PyStr(<<"h">>)
    /\ outcome.token = PyNone
    /\ "DATABRICKS_HOST" \in DOMAIN env /\ env["DATABRICKS_HOST"] = <<"/", "h">>
    /\ "DATABRICKS_TOKEN" \in DOMAIN env /\ env["DATABRICKS_TOKEN"] = <<"t">>
    /\ client.constructed
    /\ client.host = <<"h">>
    /\ client.token = <<"t">>

\* C16: the host of a constructed client never ends with "/", whichever
\* source it came from and however many "/" it ended with; a host made of
\* "/" only is no host, and the constructor raises.
ThmC16 ==
    /\ client.constructed =>
           client.host # <<>> /\ client.host[Len(client.host)] # "/"
    /\ Constructing =>
           LET h == Resolved(outcome.host, "DATABRICKS_HOST")
           IN  /\ OnlySeparators(h) => outcome.raised /\ client = NoClient
               /\ ~outcome.raised => IsStripped(client.host, h)

WitC16 ==
    /\ Constructing
    /\ outcome.host = PyNone
    /\ "DATABRICKS_HOST" \in DOMAIN env
    /\ env["DATABRICKS_HOST"] = <<"h", "/", "/">>
    /\ client.constructed
    /\ client.host = <<"h">>

(***************************************************************************)
(* Properties of the client's calls.                                       *)
(***************************************************************************)
SingleOps == {"export_space", "import_space", "update_space"}

ClientOps == SingleOps \cup {"clone_space", "diff_spaces"}

\* the response that the call ended with
LastResponse == outcome.responses[Len(outcome.responses)]

ClientErrors ==
    {"AuthenticationError", "NotFoundError", "ValidationError", "GenieSpacesError"}

\* the errors of the taxonomy, as the code names them: ValueError is the
\* configuration error, pydantic's ValidationError the schema error
Taxonomy == ClientErrors \cup {"ValueError", "pydantic.ValidationError"}

ErrorOfStatus(status_code) ==
    CASE status_code = 401 -> "AuthenticationError"
      [] status_code = 404 -> "NotFoundError"
      [] status_code = 400 -> "ValidationError"
      [] OTHER -> "GenieSpacesError"

\* the envelope has no embedded document
WithoutDocument(envelope) ==
    \/ "serialized_space" \notin DOMAIN envelope.o
    \/ envelope.o.serialized_space \in {JNull, JString(<<>>)}

\* C11 as claimed: get_export returns nothing when serialized_space is
\* absent or empty, all calls on one envelope return equal results, and no
\* call issues a request.
OrigC11 ==
    (outcome.op \in ClientOps /\ decoded # <<>>) =>
        /\ WithoutDocument(LastResponse.body.doc) =>
               \A i \in DOMAIN decoded : decoded[i] = [raised |-> FALSE, v |-> PyNone]
        /\ \A i, j \in DOMAIN decoded : decoded[i] = decoded[j]
        /\ Len(requests) = Len(outcome.responses)

\* C12 as claimed: for export_space, import_space and update_space the
\* status of the response selects the error: 401 AuthenticationError, 404
\* NotFoundError, 400 ValidationError, any other status from 400 on the
\* generic GenieSpacesError, below 400 none of them; the error carries the
\* status code and the parsed body.
OrigC12 ==
    outcome.op \in SingleOps =>
        LET status_code == LastResponse.status_code
        IN  /\ status_code >= 400 =>
                   /\ outcome.raised
                   /\ outcome.result.type = ErrorOfStatus(status_code)
                   /\ outcome.result.status_code = status_code
                   /\ LastResponse.body.json =>
                          outcome.result.response = LastResponse.body.doc
            /\ (status_code < 400 /\ outcome.raised) =>
                   outcome.result.type \notin ClientErrors

\* C13: when the response that ends a call has a status from 400 on and a
\* body that is not JSON, the call raises the error that the status selects,
\* with that status code and with {"raw": <the text>} as its response; no
\* decode error is raised.
ThmC13 ==
    (outcome.op \in ClientOps /\ ~LastResponse.body.json
        /\ LastResponse.status_code >= 400) =>
        /\ outcome.raised
        /\ outcome.result.type = ErrorOfStatus(LastResponse.status_code)
        /\ outcome.result.status_code = LastResponse.status_code
        /\ outcome.result.response = JObject([raw |-> JString(LastResponse.body.text)])

WitC13 ==
    /\ outcome.op = "export_space"
    /\ LastResponse = Response(500, PlainText(<<"Server Error">>))
    /\ outcome.result.type = "GenieSpacesError"
    /\ outcome.result.response = JObject([raw |-> JString(<<"Server Error">>)])

\* C14 as claimed: whatever the status and the body of the response, a call
\* that fails raises an error of the taxonomy.
OrigC14 ==
    (outcome.op \in ClientOps /\ outcome.raised) => outcome.result.type \in Taxonomy

IsGet(request, space_id) ==
    /\ request.method = "GET"
    /\ request.url = BASE_PATH \o <<"/">> \o space_id.s
    /\ request.params = [include_serialized_space |-> "true"]

IsPost(request) == request.method = "POST" /\ request.url = BASE_PATH

IsPatch(request, space_id) ==
    /\ request.method = "PATCH"
    /\ request.url = BASE_PATH \o <<"/">> \o space_id.s

\* C17: a call of export_space, import_space or update_space issues one
\* request and no more, whatever the status of the response: GET
\* {base}/{id} with include_serialized_space=true, POST {base}, PATCH
\* {base}/{id}.
ThmC17 ==
    outcome.op \in SingleOps =>
        /\ Len(requests) = 1
        /\ outcome.op = "export_space" => IsGet(requests[1], outcome.kw.space_id)
        /\ outcome.op = "import_space" => IsPost(requests[1])
        /\ outcome.op = "update_space" => IsPatch(requests[1], outcome.kw.space_id)

WitC17 ==
    /\ outcome.op = "update_space"
    /\ LastResponse.status_code = 500
    /\ outcome.raised
    /\ Len(requests) = 1
    /\ requests[1].method = "PATCH"

\* C18: clone_space issues its GET first and its POST second, diff_spaces
\* the GET of space 1 first and the GET of space 2 second; when the first
\* response has an error status the call raises what that response raises
\* and no second request is issued.
ThmC18 ==
    /\ outcome.op = "clone_space" =>
           /\ Len(requests) \in {1, 2}
           /\ IsGet(requests[1], outcome.kw.source_space_id)
           /\ Len(requests) = 2 => IsPost(requests[2])
    /\ outcome.op = "diff_spaces" =>
           /\ Len(requests) \in {1, 2}
           /\ IsGet(requests[1], outcome.kw.space_id_1)
           /\ Len(requests) = 2 => IsGet(requests[2], outcome.kw.space_id_2)
    /\ (outcome.op \in {"clone_space", "diff_spaces"}
           /\ outcome.responses[1].status_code >= 400) =>
           /\ outcome.raised
           /\ outcome.result = handle_response(outcome.responses[1])
           /\ Len(requests) = 1

WitC18 ==
    /\ outcome.op = "clone_space"
    /\ outcome.responses[1].status_code = 404
    /\ outcome.result.type = "NotFoundError"
    /\ Len(requests) = 1

\* the text of a JSON string field of the source envelope, <<>> when the
\* envelope has no such field or holds null
SourceText(name) ==
    LET source == outcome.responses[1].body.doc.o
    IN  IF name \in DOMAIN source /\ source[name] # JNull THEN source[name].s ELSE <<>>

Cloned == outcome.op = "clone_space" /\ Len(requests) = 2

\* C19: the POST of clone_space carries the caller's title when one is
\* given and otherwise the source title followed by " (Copy)"; it carries
\* the caller's description when one is given, otherwise the description of
\* the source, and no description when the source has none.
ThmC19 ==
    Cloned =>
        LET payload == requests[2].json
            title == outcome.kw.title
            description == outcome.kw.description
        IN  /\ "title" \in DOMAIN payload
            /\ payload.title =
                   IF title # PyNone /\ title.s # <<>> THEN title
                   ELSE PyStr(SourceText("title") \o <<" (Copy)">>)
            /\ IF description # PyNone /\ description.s # <<>>
               THEN "description" \in DOMAIN payload /\ payload.description = description
               ELSE IF SourceText("description") # <<>>
               THEN /\ "description" \in DOMAIN payload
                    /\ payload.description = PyStr(SourceText("description"))
               ELSE "description" \notin DOMAIN payload

WitC19 ==
    /\ Cloned
    /\ outcome.kw.title = PyNone
    /\ outcome.kw.description = PyNone
    /\ requests[2].json.title = PyStr(<<"T", " (Copy)">>)
    /\ "description" \in DOMAIN requests[2].json
    /\ requests[2].json.description = PyStr(<<"d">>)

\* C20: when the export of the source succeeds and its envelope has no
\* embedded document, clone_space raises GenieSpacesError and issues no
\* POST.
ThmC20 ==
    (/\ outcome.op = "clone_space"
     /\ outcome.responses[1].body.json
     /\ handle_response(outcome.responses[1]) = Return(outcome.responses[1].body.doc)
     /\ model_validate("SpaceResponse", outcome.responses[1].body.doc).raised = FALSE
     /\ WithoutDocument(outcome.responses[1].body.doc)) =>
        /\ outcome.raised
        /\ outcome.result.type = "GenieSpacesError"
        /\ \A i \in DOMAIN requests : requests[i].method # "POST"
        /\ Len(requests) = 1

WitC20 ==
    /\ outcome.op = "clone_space"
    /\ outcome.responses[1] = Response(200, JsonText(Envelope([serialized_space |-> JString(<<>>)])))
    /\ outcome.raised
    /\ Len(requests) = 1

(***************************************************************************)
(* Properties of the remaining convenience constructors.                   *)
(***************************************************************************)
\* the fields a convenience constructor fills from a text that is passed as
\* one string, each with the argument it is filled from
SingleStringFieldsOf(fn) ==
    CASE fn \in {"ColumnConfig.create", "Table.create", "MetricView.create",
                 "Parameter.create"} -> {<<"description", "description">>}
      [] fn = "ExampleQuestionSql.create" ->
             {<<"sql", "sql">>, <<"usage_guidance", "usage_guidance">>}
      [] fn = "JoinSpec.create" -> {<<"sql", "join_condition">>, <<"comment", "comment">>}
      [] OTHER -> {}

\* C26 as claimed: the description of ColumnConfig.create, Table.create,
\* MetricView.create and Parameter.create, the sql and usage_guidance of
\* ExampleQuestionSql.create, the join condition and comment of
\* JoinSpec.create and the content of BenchmarkAnswer.from_sql are stored
\* split at every newline: a text that is passed and not empty is stored as
\* its lines, none of which contains a newline.
OrigC26 ==
    /\ \A pair \in SingleStringFieldsOf(call.fn) :
           ~NoneOrEmptyText(Arg(call.kw, pair[2], PyNone)) =>
               IsLinesOf(call.result.f[pair[1]], call.kw[pair[2]].s)
    /\ call.fn = "BenchmarkQuestion.create" =>
           IsLinesOf(call.result.f["answer"].a[1].f["content"], call.kw["sql_answer"].s)

(***************************************************************************)
(* Properties of the payloads.                                             *)
(***************************************************************************)
UpdateKeys ==
    {"serialized_space", "warehouse_id", "parent_path", "title", "description"}

\* the arguments of update_space that are not None
SetArgs(kw) == {key \in UpdateKeys : kw[key] # PyNone}

\* C21: the PATCH body of update_space has a key only for an argument the
\* caller set, and no key holds null; a call with only title set (to a text)
\* sends a body whose only key is title.
ThmC21 ==
    outcome.op = "update_space" =>
        LET payload == requests[1].json
        IN  /\ DOMAIN payload \subseteq SetArgs(outcome.kw)
            /\ \A key \in DOMAIN payload : payload[key] # PyNone
            /\ (SetArgs(outcome.kw) = {"title"} /\ outcome.kw.title.s # <<>>) =>
                   payload = [title |-> outcome.kw.title]

WitC21 ==
    /\ outcome.op = "update_space"
    /\ SetArgs(outcome.kw) = {"title"}
    /\ requests[1].json = [title |-> PyStr(<<"X">>)]

\* C22: the POST body of import_space always has warehouse_id, parent_path
\* and serialized_space; serialized_space is a string, the to_json text of a
\* GenieSpaceExport argument and a string argument as given; title and
\* description are there exactly when the argument is a non-empty text.
ThmC22 ==
    outcome.op = "import_space" =>
        LET payload == requests[1].json
            kw == outcome.kw
        IN  /\ {"warehouse_id", "parent_path", "serialized_space"} \subseteq DOMAIN payload
            /\ DOMAIN payload \subseteq
                   {"warehouse_id", "parent_path", "serialized_space", "title",
                    "description"}
            /\ payload.warehouse_id = kw.warehouse_id
            /\ payload.parent_path = kw.parent_path
            /\ payload.serialized_space.t = "str"
            /\ kw.serialized_space.t = "model" =>
                   payload.serialized_space = PyStr(<<to_json(kw.serialized_space)>>)
            /\ kw.serialized_space.t = "str" =>
                   payload.serialized_space = kw.serialized_space
            /\ \A key \in {"title", "description"} :
                   IF kw[key] # PyNone /\ kw[key].s # <<>>
                   THEN key \in DOMAIN payload /\ payload[key] = kw[key]
                   ELSE key \notin DOMAIN payload

WitC22 ==
    /\ outcome.op = "import_space"
    /\ outcome.kw.serialized_space = EmptyExport
    /\ outcome.kw.title = PyStr(<<"X">>)
    /\ outcome.kw.description = PyStr(<<>>)
    /\ requests[1].json =
           [warehouse_id |-> PyStr(<<"w">>), parent_path |-> PyStr(<<"p">>),
            serialized_space |-> PyStr(<<JsonText(JObject([version |-> JNumber(1)]))>>),
            title |-> PyStr(<<"X">>)]

\* C29: update_space puts serialized_space in the PATCH body whenever the
\* argument is not None, the empty string included; it puts warehouse_id,
\* parent_path, title and description in the body only when the argument is
\* a non-empty text, so none of these four is ever sent empty.
ThmC29 ==
    outcome.op = "update_space" =>
        LET payload == requests[1].json
            kw == outcome.kw
        IN  /\ "serialized_space" \in DOMAIN payload <=> kw.serialized_space # PyNone
            /\ kw.serialized_space = PyStr(<<>>) => payload.serialized_space = PyStr(<<>>)
            /\ \A key \in UpdateKeys \ {"serialized_space"} :
                   /\ key \in DOMAIN payload <=> (kw[key] # PyNone /\ kw[key].s # <<>>)
                   /\ key \in DOMAIN payload => payload[key] = kw[key]

WitC29 ==
    /\ outcome.op = "update_space"
    /\ outcome.kw.serialized_space = PyStr(<<>>)
    /\ outcome.kw.title = PyStr(<<>>)
    /\ outcome.kw.description = PyStr(<<"Y">>)
    /\ DOMAIN requests[1].json = {"serialized_space", "description"}
    /\ requests[1].json.serialized_space = PyStr(<<>>)

(***************************************************************************)
(* Properties of diff_spaces.                                              *)
(***************************************************************************)
\* diff_spaces has issued both requests and both export_space calls returned
\* an envelope
BothExported ==
    /\ outcome.op = "diff_spaces"
    /\ Len(outcome.responses) = 2
    /\ \A i \in {1, 2} : ~validated(handle_response(outcome.responses[i])).raised

\* the envelope of the i-th response and its embedded text
EnvelopeOf(i) == outcome.responses[i].body.doc

Embedded(i) == EnvelopeOf(i).o.serialized_space.s[1]

\* the i-th embedded document as get_export decodes it; the decode of the
\* second follows that of the first
Decoded1 ==
    IF WithoutDocument(EnvelopeOf(1)) THEN [ok |-> TRUE, v |-> PyNone, n |-> 0]
    ELSE from_json(Embedded(1), 0)

Decoded2 ==
    IF WithoutDocument(EnvelopeOf(2)) THEN [ok |-> TRUE, v |-> PyNone, n |-> Decoded1.n]
    ELSE from_json(Embedded(2), Decoded1.n)

DiffResult ==
    [space_1 |-> outcome.kw.space_id_1, space_2 |-> outcome.kw.space_id_2,
     config_1 |-> to_dict(Decoded1.v), config_2 |-> to_dict(Decoded2.v)]

RECURSIVE KeyPaths(_, _)
KeyPaths(j, prefix) ==
    CASE j.t = "object" ->
            UNION {{prefix \o <<Key(k)>>} \cup KeyPaths(j.o[k], prefix \o <<Key(k)>>) :
                   k \in DOMAIN j.o}
      [] j.t = "array" ->
            UNION {KeyPaths(j.a[i], prefix \o <<Index(i)>>) : i \in DOMAIN j.a}
      [] OTHER -> {}

\* a declared field that holds no record: a text, a number, a flag, lines
IsPlainField(field) ==
    /\ StripOptional(field.type).k # "model"
    /\ StripOptional(field.type).k = "list" => StripOptional(field.type).of.k # "model"

\* the embedded text of the source envelope and the text that was posted
SourceDocument == outcome.responses[1].body.doc.o.serialized_space.s[1]

PostedDocument == requests[2].json.serialized_space.s[1]

\* C28: the serialized_space that clone_space posts is
\* to_json(from_json(source.serialized_space)): it has no key that the
\* schema does not know and no key that holds null, and every schema-known
\* field of the source that is not null is in it unchanged.
ThmC28 ==
    Cloned =>
        /\ PostedDocument = to_json(from_json(SourceDocument, 0).v)
        /\ ~HasNull(PostedDocument.doc)
        /\ KeyPaths(PostedDocument.doc, <<>>) = {q.path : q \in Held(PostedDocument)}
        /\ \A q \in Held(SourceDocument) :
               (IsPlainField(q.field) /\ JGet(SourceDocument.doc, q.path) # JNull) =>
                   JGet(PostedDocument.doc, q.path) = JGet(SourceDocument.doc, q.path)

WitC28 ==
    /\ Cloned
    /\ SourceDocument = JsonText(DocWithExtras)
    /\ PostedDocument = JsonText(DocWithIds)
    /\ PostedDocument # SourceDocument

(***************************************************************************)
(* Properties of the order of diff_spaces.                                 *)
(***************************************************************************)
\* what the export_space call answered by the i-th response returns or raises
ExportOf(i) == validated(handle_response(outcome.responses[i]))

\* the first export returned an envelope whose embedded document does not
\* parse
Unparsable1 ==
    /\ ~ExportOf(1).raised
    /\ ~WithoutDocument(EnvelopeOf(1))
    /\ ~Decoded1.ok

\* the first export returned an envelope without an embedded document
Empty1 == ~ExportOf(1).raised /\ WithoutDocument(EnvelopeOf(1))

\* C30 as claimed: when the export of space 1 succeeds with no embedded
\* document, diff_spaces issues the GET for space 2 and then fails with the
\* client error; the second GET is issued unless space 1 gave an error
\* status or an embedded document that does not parse.
OrigC30 ==
    outcome.op = "diff_spaces" =>
        /\ Empty1 =>
               /\ Len(requests) = 2
               /\ IsGet(requests[2], outcome.kw.space_id_2)
               /\ outcome.raised
               /\ outcome.result.type \in ClientErrors
        /\ Len(requests) = 1 =>
               outcome.responses[1].status_code >= 400 \/ Unparsable1

\* C30 as amended: when the export of space 1 succeeds with no embedded
\* document, diff_spaces issues the GET for space 2 and then fails: with
\* what the second export raises, else with the schema error when the
\* second embedded document does not parse, else with the client error.
\* The second GET is issued unless space 1 gave an error status, a
\* response that is not a valid envelope, or an embedded document that
\* does not parse.
ThmC30 ==
    outcome.op = "diff_spaces" =>
        /\ Empty1 =>
               /\ Len(requests) = 2
               /\ IsGet(requests[2], outcome.kw.space_id_2)
               /\ outcome.raised
               /\ IF ExportOf(2).raised THEN outcome.result = ExportOf(2)
                  ELSE IF ~Decoded2.ok
                  THEN outcome.result.type = "pydantic.ValidationError"
                  ELSE outcome.result = EmptyExports
        /\ Len(requests) = 1 <=>
               \/ outcome.responses[1].status_code >= 400
               \/ ExportOf(1).raised
               \/ Unparsable1

WitC30 ==
    /\ outcome.op = "diff_spaces"
    /\ Empty1
    /\ EnvelopeOf(1) = Envelope(<<>>)
    /\ outcome.responses[1].status_code = 200
    /\ Len(requests) = 2
    /\ ~ExportOf(2).raised
    /\ outcome.result = EmptyExports

(***************************************************************************)
(* Files.  A path is the sequence of its components; the working           *)
(* directory is the empty path and always exists.                          *)
(***************************************************************************)
\* Path.parent
parent(path) == SubSeq(path, 1, Len(path) - 1)

\* an error of the operating system or of the interpreter
OSError(type, d) == [raised |-> TRUE, type |-> type, disk |-> d]

\* Path.mkdir(parents=True, exist_ok=True)
mkdir(d, path) ==
    LET made == {SubSeq(path, 1, k) : k \in 1..Len(path)}
    IN  IF \E p \in made : p \in DOMAIN d.files
        THEN OSError("FileExistsError", d)
        ELSE [raised |-> FALSE, disk |-> [d EXCEPT !.dirs = @ \cup made]]

\* GenieSpaceExport.to_file: open(path, "w") and write to_json()
to_file(self, path, d) ==
    IF path \in d.dirs THEN OSError("IsADirectoryError", d)
    ELSE IF parent(path) # <<>> /\ parent(path) \notin d.dirs
    THEN OSError("FileNotFoundError", d)
    ELSE [raised |-> FALSE,
          disk |-> [d EXCEPT !.files =
                       (path :> to_json(self))
                       @@ [q \in DOMAIN d.files \ {path} |-> d.files[q]]]]

\* GenieSpaceExport.from_file: open(path), read, from_json
from_file(path, d, n) ==
    IF path \in d.dirs
    THEN [raised |-> TRUE, type |-> "IsADirectoryError", v |-> PyNone, n |-> n]
    ELSE IF path \notin DOMAIN d.files
    THEN [raised |-> TRUE, type |-> "FileNotFoundError", v |-> PyNone, n |-> n]
    ELSE LET r == from_json(d.files[path], n)
         IN  IF r.ok THEN [raised |-> FALSE, v |-> r.v, n |-> r.n]
             ELSE [raised |-> TRUE, type |-> "pydantic.ValidationError",
                   v |-> PyNone, n |-> r.n]

\* the outcome r of a call together with the file system it leaves
OnDisk(r, d) == [requests |-> r.requests, result |-> r.result, n |-> r.n, disk |-> d]

EmptySpace ==
    GenieSpacesError("GenieSpacesError",
                     <<"Space export returned empty serialized_space">>, PyNone, PyNone)

\* export_space_to_file after `export.to_file(str(output_path))`
save_written(space, export_, written) ==
    IF written.raised
    THEN OnDisk(Done(space.requests, [raised |-> TRUE, type |-> written.type],
                     export_.n), written.disk)
    ELSE OnDisk(Done(space.requests, Return(export_.v), export_.n), written.disk)

\* export_space_to_file after `output_path.parent.mkdir(...)`
save_made(output_path, space, export_, made) ==
    IF made.raised
    THEN OnDisk(Done(space.requests, [raised |-> TRUE, type |-> made.type],
                     export_.n), made.disk)
    ELSE save_written(space, export_, to_file(export_.v, output_path, made.disk))

\* faulty variant: the directory is made before the export is tested for None
save_export_mkdir_first(output_path, d, space, export_) ==
    IF export_.raised THEN OnDisk(Raised(space, export_), d)
    ELSE IF export_.v = PyNone
    THEN OnDisk(Done(space.requests, EmptySpace, export_.n),
                mkdir(d, parent(output_path)).disk)
    ELSE save_made(output_path, space, export_, mkdir(d, parent(output_path)))

\* export_space_to_file from `if export is None:` on
save_export(output_path, d, space, export_) ==
    IF export_.raised THEN OnDisk(Raised(space, export_), d)
    ELSE IF export_.v = PyNone
    THEN OnDisk(Done(space.requests, EmptySpace, export_.n), d)
    ELSE save_made(output_path, space, export_, mkdir(d, parent(output_path)))

\* export_space_to_file from `export = space.get_export()` on
save_space(output_path, d, space) ==
    IF space.result.raised THEN OnDisk(space, d)
    ELSE save_export(output_path, d, space, get_export(space.result.v, space.n))

export_space_to_file(space_id, output_path, response, d, n) ==
    save_space(output_path, d, export_space(space_id, response, n))

\* faulty variant: the request is issued although the file did not load
after_load_request_first(export_, r) ==
    IF export_.raised
    THEN Done(r.requests, [raised |-> TRUE, type |-> export_.type], export_.n)
    ELSE r

\* `export = GenieSpaceExport.from_file(str(file_path))` raises, or the call
\* goes on to the request
after_load(export_, r) ==
    IF export_.raised
    THEN Done(<<>>, [raised |-> TRUE, type |-> export_.type], export_.n)
    ELSE r

\* import_space_from_file from `return self.import_space(` on
import_loaded(kw, response, export_) ==
    after_load(export_,
               import_space([warehouse_id |-> kw.warehouse_id,
                             parent_path |-> kw.parent_path,
                             serialized_space |-> export_.v,
                             title |-> Arg(kw, "title", PyNone),
                             description |-> Arg(kw, "description", PyNone)],
                            response, export_.n))

import_space_from_file(kw, response, d, n) ==
    import_loaded(kw, response, from_file(kw.file_path, d, n))

\* update_space_from_file from `return self.update_space(` on
update_loaded(kw, response, export_) ==
    after_load(export_,
               update_space([space_id |-> kw.space_id,
                             serialized_space |-> export_.v,
                             warehouse_id |-> Arg(kw, "warehouse_id", PyNone),
                             title |-> Arg(kw, "title", PyNone),
                             description |-> Arg(kw, "description", PyNone)],
                            response, export_.n))

update_space_from_file(kw, response, d, n) ==
    update_loaded(kw, response, from_file(kw.file_path, d, n))

(***************************************************************************)
(* The lifetime of the client.                                             *)
(***************************************************************************)
\* GenieSpacesClient.close
close(self) == [self EXCEPT !.httpx_client = "closed"]

\* GenieSpacesClient.__enter__
enter(self) == self

\* faulty variant: the block is left without close
exit_without_close(self) == [self |-> self, suppress |-> FALSE]

\* GenieSpacesClient.__exit__: calls close and returns None, so an exception
\* of the block is not suppressed
exit(self) == [self |-> close(self), suppress |-> FALSE]

(***************************************************************************)
(* A session: the client is used for one call that reads or writes a file, *)
(* inside a with-block or outside one, and is closed.                      *)
(***************************************************************************)
InFile == <<"in.json">>

OutFiles == {<<"out.json">>, <<"exports", "out.json">>}

Disks ==
    {NoFiles,
     [files |-> (InFile :> JsonText(DocWithIds)), dirs |-> {}],
     [files |-> (InFile :> NotJsonText), dirs |-> {}],
     [files |-> (InFile :> JsonText(DocInvalid)), dirs |-> {}],
     [files |-> (InFile :> JsonText(DocWithoutId))
                @@ (<<"exports", "out.json">> :> JsonText(DocInvalid)),
      dirs |-> {<<"exports">>}],
     [files |-> (<<"exports">> :> NotJsonText), dirs |-> {}],
     [files |-> <<>>, dirs |-> {InFile, <<"out.json">>}]}

ExportFileKw ==
    {[space_id |-> PyStr(<<"s", "1">>), output_path |-> output_path] :
        output_path \in OutFiles}

ImportFileKw ==
    {[warehouse_id |-> PyStr(<<"w">>), parent_path |-> PyStr(<<"p">>),
      file_path |-> InFile, title |-> title, description |-> description] :
        title \in OptText("X"), description \in {PyNone, PyStr(<<"Y">>)}}

UpdateFileKw ==
    {[space_id |-> PyStr(<<"s", "1">>), file_path |-> InFile,
      warehouse_id |-> warehouse_id, title |-> title, description |-> PyNone] :
        warehouse_id \in {PyNone, PyStr(<<"w">>)}, title \in OptText("X")}

InitSession ==
    /\ generated = <<>>
    /\ call = NoCall
    /\ InitDoc
    /\ env = <<>>
    /\ client = GenieSpacesClient(PyStr(<<"h", "/">>), PyStr(<<"t">>)).v
    /\ requests = <<>>
    /\ outcome = NoOutcome
    /\ decoded = <<>>
    /\ scope = NoScope
    /\ disk \in Disks

\* the call is over: r holds its requests, its result and the file system
\* it leaves; the file system before the call is kept with the outcome
FinishOnDisk(op, kw, response, r) ==
    /\ outcome' = [op |-> op, kw |-> kw, responses |-> <<response>>,
                   raised |-> r.result.raised, result |-> r.result, before |-> disk]
    /\ requests' = requests \o r.requests
    /\ generated' = generated \o Draws(Len(generated), r.n)
    /\ disk' = r.disk
    /\ UNCHANGED <<call, docVars, env, client, decoded, scope>>

ExportSpaceToFile ==
    /\ Ready
    /\ \E kw \in ExportFileKw, response \in Responses :
           FinishOnDisk("export_space_to_file", kw, response,
                        export_space_to_file(kw.space_id, kw.output_path, response,
                                             disk, Len(generated)))

ImportSpaceFromFile ==
    /\ Ready
    /\ \E kw \in ImportFileKw, response \in Responses :
           FinishOnDisk("import_space_from_file", kw, response,
                        OnDisk(import_space_from_file(kw, response, disk,
                                                      Len(generated)), disk))

UpdateSpaceFromFile ==
    /\ Ready
    /\ \E kw \in UpdateFileKw, response \in Responses :
           FinishOnDisk("update_space_from_file", kw, response,
                        OnDisk(update_space_from_file(kw, response, disk,
                                                      Len(generated)), disk))

\* an exception of a call inside the with-block is on its way out of it
Raising == scope.block = "inside" /\ outcome # NoOutcome /\ outcome.raised

\* `with client:`
Enter ==
    /\ Ready
    /\ scope.block = "none"
    /\ ~scope.close_called
    /\ client' = enter(client)
    /\ scope' = [scope EXCEPT !.block = "inside"]
    /\ UNCHANGED <<generated, call, docVars, env, requests, outcome, decoded, disk>>

\* the with-block is left, at its end or by the exception of a call
Exit ==
    /\ scope.block = "inside"
    /\ LET left == exit(client)
       IN  /\ client' = left.self
           /\ scope' = [scope EXCEPT !.block = "left",
                                     !.propagated = IF Raising /\ ~left.suppress
                                                    THEN <<outcome.result>> ELSE <<>>]
    /\ UNCHANGED <<generated, call, docVars, env, requests, outcome, decoded, disk>>

\* `client.close()`
Close ==
    /\ client.constructed
    /\ ~Raising
    /\ ~scope.close_called
    /\ client' = close(client)
    /\ scope' = [scope EXCEPT !.close_called = TRUE]
    /\ UNCHANGED <<generated, call, docVars, env, requests, outcome, decoded, disk>>

NextSession ==
    \/ ExportSpaceToFile
    \/ ImportSpaceFromFile
    \/ UpdateSpaceFromFile
    \/ Enter
    \/ Exit
    \/ Close

SpecSession == InitSession /\ [][NextSession]_vars

(***************************************************************************)
(* Properties of the calls that use files and of the client's lifetime.    *)
(***************************************************************************)
\* C23: export_space_to_file issues its one GET and writes the file only
\* after export_space returned an envelope whose embedded document is there
\* and parses; when the export fails it raises that error, when the envelope
\* has no embedded document it raises GenieSpacesError, and in both cases
\* the files and directories are as they were before the call.
ThmC23 ==
    outcome.op = "export_space_to_file" =>
        /\ Len(requests) = 1
        /\ ExportOf(1).raised => outcome.result = ExportOf(1) /\ disk = outcome.before
        /\ Empty1 =>
               /\ outcome.raised
               /\ outcome.result.type = "GenieSpacesError"
               /\ disk = outcome.before
        /\ disk # outcome.before =>
               /\ ~ExportOf(1).raised
               /\ ~WithoutDocument(EnvelopeOf(1))
               /\ Decoded1.ok
        /\ ~outcome.raised =>
               /\ outcome.result.v = Decoded1.v
               /\ outcome.kw.output_path \in DOMAIN disk.files
               /\ disk.files[outcome.kw.output_path] = to_json(Decoded1.v)

WitC23 ==
    /\ outcome.op = "export_space_to_file"
    /\ Empty1
    /\ outcome.kw.output_path = <<"exports", "out.json">>
    /\ outcome.before = NoFiles
    /\ disk = NoFiles
    /\ outcome.result = EmptySpace

\* the file of the call, when it is there and parses as an export
FileLoads ==
    /\ outcome.kw.file_path \in DOMAIN outcome.before.files
    /\ from_json(outcome.before.files[outcome.kw.file_path], 0).ok

\* C27: import_space_from_file and update_space_from_file load and validate
\* the file before the request: when the file cannot be read or does not
\* parse as an export the call raises and no request is issued; otherwise
\* the one POST or PATCH carries the document of the file.
ThmC27 ==
    outcome.op \in {"import_space_from_file", "update_space_from_file"} =>
        IF FileLoads
        THEN /\ Len(requests) = 1
             /\ requests[1].method =
                    IF outcome.op = "import_space_from_file" THEN "POST" ELSE "PATCH"
             /\ requests[1].json.serialized_space =
                    PyStr(<<to_json(from_json(outcome.before.files[outcome.kw.file_path],
                                              0).v)>>)
        ELSE /\ outcome.raised
             /\ outcome.result.type \in
                    {"FileNotFoundError", "IsADirectoryError", "pydantic.ValidationError"}
             /\ requests = <<>>

WitC27 ==
    /\ outcome.op = "update_space_from_file"
    /\ outcome.before.files = (InFile :> JsonText(DocInvalid))
    /\ outcome.raised
    /\ outcome.result.type = "pydantic.ValidationError"
    /\ requests = <<>>

\* C25: once close was called, and once a with-block over the client was
\* left, at its end or by an exception, the connection of the client is
\* closed; an exception that a call raised inside the block is raised out of
\* the block.
ThmC25 ==
    /\ scope.close_called => client.httpx_client = "closed"
    /\ scope.block = "left" =>
           /\ client.httpx_client = "closed"
           /\ (outcome # NoOutcome /\ outcome.raised) =>
                  scope.propagated = <<outcome.result>>

WitC25 ==
    /\ scope.block = "left"
    /\ ~scope.close_called
    /\ outcome # NoOutcome
    /\ outcome.raised
    /\ scope.propagated = <<outcome.result>>
    /\ client.httpx_client = "closed"

====
